---- MODULE Spec2Model ----
(***************************************************************************)
(* Model of the nexum configuration store (src/utils/config.ts), the       *)
(* revalidation dispatcher (src/utils/revalidation.ts, the version with    *)
(* both invalidation primitives), the cache classifier                     *)
(* (src/utils/cache/cache-detector.ts) and the tag store.                  *)
(*                                                                         *)
(* JavaScript runs one task at a time: every action below is the code      *)
(* that runs between two suspension points (an await), so the              *)
(* interleavings of the model are the interleavings of the event loop.     *)
(* The classifier and the tag store are pure: their specifications draw    *)
(* the arguments in the initial state and apply the function.              *)
(***************************************************************************)
EXTENDS Integers, Sequences, FiniteSets, TLC

---------------------------------------------------------------------------
(* Bounds *)

\* number of getConfigAsync()/reloadConfig() calls issued by the application
MaxCfgCalls == 2
\* number of discoveries that may be started (the one of module
\* initialisation included)
MaxDisc == 2
\* number of revalidateCacheTags() calls issued by the application
MaxRevCalls == 2
\* length of the tag list passed to revalidateCacheTags() when it is not empty
MaxTags == 2

\* largest number of seconds written in an age header or a max-age directive
MaxSeconds == 120
\* longest request, in milliseconds
MaxDuration == 25

\* number of tags in the catalog a TagStore is constructed with
MaxCatalog == 3
\* number of items passed to expandGroupsToTags()
MaxItems == 2

\* number of assignments the application attempts through NEXUM_CONFIG
MaxAssigns == 2

\* number of keys of the objects handed to mergeDeepConfig() on its own
MaxKeys == 3

CfgCalls == 1..MaxCfgCalls
DiscIds == 0..(MaxDisc - 1)
RevCalls == 1..MaxRevCalls

---------------------------------------------------------------------------
(* JavaScript values *)

\* null, for the two module variables that hold an object or null
Null == -1

\* A property value: a primitive, a plain object one level deep (f maps its
\* keys to primitives), an array, null, or undefined.
NoFields == [k \in {} |-> ""]
Prim(s) == [t |-> "prim", v |-> s, f |-> NoFields]
Obj(fn) == [t |-> "obj", v |-> "", f |-> fn]
Undefined == [t |-> "undefined", v |-> "", f |-> NoFields]
ArrayValue == [t |-> "array", v |-> "", f |-> NoFields]
NullValue == [t |-> "null", v |-> "", f |-> NoFields]

\* typeof value
typeof(value) ==
    CASE value.t \in {"obj", "array", "null"} -> "object"
      [] value.t = "undefined" -> "undefined"
      [] OTHER -> "string"

\* Array.isArray(value)
isArray(value) == value.t = "array"

\* obj[key] of a JavaScript object modelled as a function over its own keys
Prop(o, key) == IF key \in DOMAIN o THEN o[key] ELSE Undefined

\* { ...a, ...b }
Spread(a, b) ==
    [k \in (DOMAIN a) \cup (DOMAIN b) |-> IF k \in DOMAIN b THEN b[k] ELSE a[k]]

\* the built-in defaults (the keys the dispatcher and the merge read)
DEFAULT_CONFIG ==
    [ tokenVerb |-> Prim("Bearer"),
      debug |-> Obj([ emptyMutationTagsWarning |-> "true",
                      cacheLogging |-> "true" ]) ]

\* the configuration files discovery may find on disk
UserConfigs ==
    { [ debug |-> Obj([ emptyMutationTagsWarning |-> "false" ]),
        defaultRevalidateFunction |-> Prim("updateTag") ],
      [ defaultRevalidateFunction |-> Prim("revalidateTag"),
        tokenVerb |-> Undefined ] }

\* what explorer.search() yields when no file is found (or an empty one)
NoConfig == NoFields

mergeDeepConfigShallow(defaultConfig, userConfig) ==
    LET set == {k \in DOMAIN userConfig : userConfig[k] # Undefined}
    IN  [k \in (DOMAIN defaultConfig) \cup set |->
            IF k \in set THEN userConfig[k] ELSE defaultConfig[k]]

\* result starts as { ...defaultConfig }; each key of userConfig whose value
\* is not undefined is then written on result
mergeDeepConfig(defaultConfig, userConfig) ==
    LET set == {k \in DOMAIN userConfig : userConfig[k] # Undefined}
        merged(k) ==
            LET userValue == userConfig[k]
                defaultValue == Prop(defaultConfig, k)
            IN  IF /\ typeof(userValue) = "object"
                   /\ userValue # NullValue
                   /\ ~isArray(userValue)
                   /\ typeof(defaultValue) = "object"
                   /\ defaultValue # NullValue
                   /\ ~isArray(defaultValue)
                THEN Obj(Spread(defaultValue.f, userValue.f))
                ELSE userValue
    IN  [k \in (DOMAIN defaultConfig) \cup set |->
            IF k \in set THEN merged(k) ELSE defaultConfig[k]]

\* A configuration object in the heap: its identity and its content.
\* __DEFAULT_CONFIG__ is one object; every merge allocates a new one.
DefaultObjId == 0
DefaultCfg == [obj |-> DefaultObjId, cfg |-> DEFAULT_CONFIG]
NullCfg == [obj |-> Null, cfg |-> NoFields]
MergedCfg(d, user) == [obj |-> d + 1, cfg |-> mergeDeepConfig(DEFAULT_CONFIG, user)]

---------------------------------------------------------------------------
(* State *)

VARIABLES
    configCache,    \* let configCache: NexumConfig | null
    configPromise,  \* let configPromise: the discovery it belongs to, or Null
    dstate,         \* per discovery: "unstarted", "running", "returned", "threw"
    dres,           \* per discovery: the value its promise resolved with
    nextDisc,       \* number of discoveries started so far
    cpc,            \* per call: "idle", "awaiting", "resolved"
    ckind,          \* per call: "none", "get", "reload"
    con,            \* per call: the discovery whose promise it awaits, or Null
    cres,           \* per call: the configuration it resolved with
    csrc,           \* per call: the discovery that wrote the value it resolved with
    cfloor,         \* per call: newest discovery of a reloadConfig() resolved before the call
    cacheSrc,       \* the discovery that wrote configCache, or Null
    writes,         \* writes of configCache by discoveries since the last reloadConfig()
    reloads,        \* number of reloadConfig() calls so far
    lastLoaded      \* the configuration stored by the most recently completed load, ever

cfgVars == <<configCache, configPromise, dstate, dres, nextDisc, cpc, ckind,
             con, cres, csrc, cfloor, cacheSrc, writes, reloads, lastLoaded>>

VARIABLES
    nextCacheModule,    \* the host: what `import("next/cache")` yields in this process
    revalidateTag,      \* let revalidateTag: typeof of the stored reference
    updateTag,          \* let updateTag: typeof of the stored reference
    nextCacheAvailable, \* let nextCacheAvailable: "undefined", "true", "false"
    rpc,                \* per call: "idle", "probing", "resuming", "returned", "threw"
    rtags,              \* per call: the tags argument
    rfn,                \* per call: options.revalidateFunction
    rprofile,           \* per call: options.profile
    ravail,             \* per call: what its isNextCacheAvailable() resolved with
    rinvoked,           \* per call: the invocations of the primitives it made, in order
    rlog,               \* per call: the logger calls it reached, in order (devOnly: behind `__IS__DEV__ &&`)
    rinflight,          \* per call: its invocations (by position) that have started and not completed
    rprobed,            \* per call: whether it started an import of next/cache
    rthrewAt            \* per call: the position of its invocation that threw, 0 when none did

revVars == <<nextCacheModule, revalidateTag, updateTag, nextCacheAvailable,
             rpc, rtags, rfn, rprofile, ravail, rinvoked, rlog, rinflight, rprobed,
             rthrewAt>>

VARIABLES
    analysisArgs,       \* the arguments of the analyzeCacheStatus() call to make (at most one)
    analysis            \* what that call returned, once it has (at most one)

VARIABLES
    storeConfig,        \* TagStore: config.tags, the names of the catalog in order
    tagsSet,            \* TagStore: Set of the tag names
    groupsMap,          \* TagStore: Map group -> Set of tags, as its entries in insertion order
    tagToGroupMap,      \* TagStore: Map tag -> group, as its entries in insertion order
    storeItems,         \* the argument of the call to make on the store (at most one)
    expandedTags,       \* what expandGroupsToTags() returned, once it has
    validated,          \* what validateTagsAndGroups() returned, once it has
    tagGroup,           \* the name getTagGroup() was asked about and what it returned
    standaloneTags      \* what getStandaloneTags() returned, once it has

storeVars ==
    <<storeConfig, tagsSet, groupsMap, tagToGroupMap, storeItems, expandedTags,
      validated, tagGroup, standaloneTags>>

VARIABLES
    debugWritten,       \* heap: per `debug` object, the properties assigned to it after its creation
    assigns,            \* number of assignments attempted through NEXUM_CONFIG
    warnings            \* number of console.warn calls of the proxy's set trap

accessorVars == <<debugWritten, assigns, warnings>>

VARIABLES
    mergeArgs,          \* the arguments of the mergeDeepConfig() call to make (at most one)
    mergeResult         \* what that call returned, once it has (at most one)

mergeVars == <<mergeArgs, mergeResult>>

\* the variables that no function of the store and of the dispatcher writes
pureVars == <<analysisArgs, analysis, storeVars, accessorVars, mergeVars>>

vars == <<cfgVars, revVars, pureVars>>

---------------------------------------------------------------------------
(* Configuration store *)

getConfig == IF configCache # NullCfg THEN configCache ELSE DefaultCfg

Running == {d \in DiscIds : dstate[d] = "running"}

\* newest discovery among the reloadConfig() calls that have resolved
ReloadFloor ==
    LET S == {con[c] : c \in {x \in CfgCalls : ckind[x] = "reload" /\ cpc[x] = "resolved"}}
    IN  IF S = {} THEN 0 ELSE CHOOSE m \in S : \A o \in S : o <= m

\* calls are issued in slot order
CanIssue(c) == cpc[c] = "idle" /\ \A b \in CfgCalls : b < c => cpc[b] # "idle"

\* loadConfig() without the `if (configPromise)` guard
loadConfigNoGuard(c, cache, promise) ==
    IF cache # NullCfg
    THEN /\ cpc' = [cpc EXCEPT ![c] = "resolved"]
         /\ cres' = [cres EXCEPT ![c] = cache]
         /\ csrc' = [csrc EXCEPT ![c] = cacheSrc]
         /\ con' = con
         /\ configPromise' = promise
         /\ UNCHANGED <<dstate, nextDisc>>
    ELSE /\ nextDisc < MaxDisc
         /\ dstate' = [dstate EXCEPT ![nextDisc] = "running"]
         /\ configPromise' = nextDisc
         /\ nextDisc' = nextDisc + 1
         /\ cpc' = [cpc EXCEPT ![c] = "awaiting"]
         /\ con' = [con EXCEPT ![c] = nextDisc]
         /\ UNCHANGED <<cres, csrc>>

\* loadConfig() up to its first suspension, called on behalf of call c
loadConfig(c, cache, promise) ==
    IF cache # NullCfg
    THEN /\ cpc' = [cpc EXCEPT ![c] = "resolved"]
         /\ cres' = [cres EXCEPT ![c] = cache]
         /\ csrc' = [csrc EXCEPT ![c] = cacheSrc]
         /\ con' = con
         /\ configPromise' = promise
         /\ UNCHANGED <<dstate, nextDisc>>
    ELSE IF promise # Null
    THEN /\ cpc' = [cpc EXCEPT ![c] = "awaiting"]
         /\ con' = [con EXCEPT ![c] = promise]
         /\ configPromise' = promise
         /\ UNCHANGED <<cres, csrc, dstate, nextDisc>>
    ELSE /\ nextDisc < MaxDisc
         /\ dstate' = [dstate EXCEPT ![nextDisc] = "running"]
         /\ configPromise' = nextDisc
         /\ nextDisc' = nextDisc + 1
         /\ cpc' = [cpc EXCEPT ![c] = "awaiting"]
         /\ con' = [con EXCEPT ![c] = nextDisc]
         /\ UNCHANGED <<cres, csrc>>

getConfigAsync(c) ==
    /\ CanIssue(c)
    /\ ckind' = [ckind EXCEPT ![c] = "get"]
    /\ cfloor' = [cfloor EXCEPT ![c] = ReloadFloor]
    /\ loadConfig(c, configCache, configPromise)
    /\ UNCHANGED <<configCache, dres, cacheSrc, writes, reloads, lastLoaded>>
    /\ UNCHANGED <<revVars, pureVars>>

\* reloadConfig() without `configCache = null`
reloadConfigKeepsCache(c) ==
    /\ CanIssue(c)
    /\ ckind' = [ckind EXCEPT ![c] = "reload"]
    /\ cfloor' = [cfloor EXCEPT ![c] = ReloadFloor]
    /\ configCache' = configCache
    /\ cacheSrc' = Null
    /\ writes' = 0
    /\ reloads' = reloads + 1
    /\ loadConfig(c, configCache, Null)
    /\ UNCHANGED <<dres, lastLoaded>>
    /\ UNCHANGED <<revVars, pureVars>>

reloadConfig(c) ==
    /\ CanIssue(c)
    /\ ckind' = [ckind EXCEPT ![c] = "reload"]
    /\ cfloor' = [cfloor EXCEPT ![c] = ReloadFloor]
    /\ configCache' = NullCfg
    /\ cacheSrc' = Null
    /\ writes' = 0
    /\ reloads' = reloads + 1
    /\ loadConfig(c, NullCfg, Null)
    /\ UNCHANGED <<dres, lastLoaded>>
    /\ UNCHANGED <<revVars, pureVars>>

\* the try block without the finally block
DiscoveryReturnsNoFinally(d, found) ==
    /\ dstate[d] = "running"
    /\ LET finalConfig == IF found = NoConfig THEN DefaultCfg ELSE MergedCfg(d, found)
       IN  /\ configCache' = finalConfig
           /\ dres' = [dres EXCEPT ![d] = finalConfig]
           /\ lastLoaded' = finalConfig
    /\ cacheSrc' = d
    /\ writes' = writes + 1
    /\ configPromise' = configPromise
    /\ dstate' = [dstate EXCEPT ![d] = "returned"]
    /\ UNCHANGED <<nextDisc, cpc, ckind, con, cres, csrc, cfloor, reloads>>
    /\ UNCHANGED <<revVars, pureVars>>

\* the discovery's continuation after `await explorer.search()` returned
DiscoveryReturns(d, found) ==
    /\ dstate[d] = "running"
    /\ LET finalConfig == IF found = NoConfig THEN DefaultCfg ELSE MergedCfg(d, found)
       IN  /\ configCache' = finalConfig
           /\ dres' = [dres EXCEPT ![d] = finalConfig]
           /\ lastLoaded' = finalConfig
    /\ cacheSrc' = d
    /\ writes' = writes + 1
    /\ configPromise' = Null
    /\ dstate' = [dstate EXCEPT ![d] = "returned"]
    /\ UNCHANGED <<nextDisc, cpc, ckind, con, cres, csrc, cfloor, reloads>>
    /\ UNCHANGED <<revVars, pureVars>>

\* the catch block without the finally block
DiscoveryThrowsNoFinally(d) ==
    /\ dstate[d] = "running"
    /\ configCache' = DefaultCfg
    /\ dres' = [dres EXCEPT ![d] = DefaultCfg]
    /\ lastLoaded' = DefaultCfg
    /\ cacheSrc' = d
    /\ writes' = writes + 1
    /\ configPromise' = configPromise
    /\ dstate' = [dstate EXCEPT ![d] = "threw"]
    /\ UNCHANGED <<nextDisc, cpc, ckind, con, cres, csrc, cfloor, reloads>>
    /\ UNCHANGED <<revVars, pureVars>>

\* the discovery's continuation after `await explorer.search()` threw (the
\* one call of the try block that fails on a malformed file or an I/O error)
DiscoveryThrows(d) ==
    /\ dstate[d] = "running"
    /\ configCache' = DefaultCfg
    /\ dres' = [dres EXCEPT ![d] = DefaultCfg]
    /\ lastLoaded' = DefaultCfg
    /\ cacheSrc' = d
    /\ writes' = writes + 1
    /\ configPromise' = Null
    /\ dstate' = [dstate EXCEPT ![d] = "threw"]
    /\ UNCHANGED <<nextDisc, cpc, ckind, con, cres, csrc, cfloor, reloads>>
    /\ UNCHANGED <<revVars, pureVars>>

\* a caller's `await loadConfig()` resumes with the value of the promise
ConfigResolves(c) ==
    /\ cpc[c] = "awaiting"
    /\ dstate[con[c]] \in {"returned", "threw"}
    /\ cpc' = [cpc EXCEPT ![c] = "resolved"]
    /\ cres' = [cres EXCEPT ![c] = dres[con[c]]]
    /\ csrc' = [csrc EXCEPT ![c] = con[c]]
    /\ UNCHANGED <<configCache, configPromise, dstate, dres, nextDisc, ckind,
                   con, cfloor, cacheSrc, writes, reloads, lastLoaded>>
    /\ UNCHANGED <<revVars, pureVars>>

---------------------------------------------------------------------------
(* Revalidation dispatcher *)

\* the tags argument: "never", undefined, or a list of tags
Never == [kind |-> "never", list |-> <<>>]
Absent == [kind |-> "undefined", list |-> <<>>]
TagList(l) == [kind |-> "list", list |-> l]
TagNames == <<"a", "b", "c", "d">>
TagSelectors == {Never, Absent, TagList(<<>>), TagList(SubSeq(TagNames, 1, MaxTags))}

Strategies == {"undefined", "revalidateTag", "updateTag"}
Profiles == {"undefined", "hours"}

\* the arguments of a call: a strategy and a profile are read only for a
\* list that is not empty
RevArgs ==
    {<<t, "undefined", "undefined">> : t \in TagSelectors}
    \cup {a \in TagSelectors \X Strategies \X Profiles : Len(a[1].list) > 0}

\* the arguments the HTTP verbs pass: the tags of the request and its url
VerbArgs == {<<t, "undefined", "undefined">> : t \in TagSelectors}

\* the arguments of an application that calls the dispatcher itself with a
\* list of tags and, or not, a strategy of its own
StrategyArgs == {<<TagList(SubSeq(TagNames, 1, MaxTags)), s, "undefined">> : s \in Strategies}

\* what the host's next/cache may be: absent (the import rejects), or a
\* module whose two exports are functions or not. The host's module map
\* answers every import of one specifier alike, so it is chosen once.
\* `returns` is what a call of its functions returns: undefined (the work is
\* done when the call returns) or a promise (the work completes later); it
\* is varied for the module whose functions get called.
ExportTypes == {"function", "undefined"}
HostModules ==
    {[loads |-> FALSE, revalidateTag |-> "undefined", updateTag |-> "undefined",
      returns |-> "undefined"]}
    \cup [loads : {TRUE}, revalidateTag : ExportTypes, updateTag : ExportTypes,
          returns : {"undefined"}]
    \cup {[loads |-> TRUE, revalidateTag |-> "function", updateTag |-> "function",
           returns |-> "promise"]}

\* a ?? b
Coalesce(a, b) == IF a = "undefined" THEN b ELSE a

\* The `debug` object a configuration object points to. __DEFAULT_CONFIG__
\* has its own; `{ ...defaultConfig }` copies the reference, and only a file
\* with a `debug` object makes mergeDeepConfig allocate a new one.
DebugObjIds == {DefaultObjId} \cup {d + 1 : d \in DiscIds}
DebugObjOf(c) ==
    IF /\ c.obj # DefaultObjId
       /\ \E user \in UserConfigs :
             MergedCfg(c.obj - 1, user) = c /\ Prop(user, "debug").t = "obj"
    THEN c.obj
    ELSE DefaultObjId

\* the content of a configuration object as the heap has it now
Deref(c) ==
    IF "debug" \in DOMAIN c.cfg /\ c.cfg["debug"].t = "obj"
    THEN [c.cfg EXCEPT !["debug"] = Obj(Spread(@.f, debugWritten[DebugObjOf(c)]))]
    ELSE c.cfg

\* NEXUM_CONFIG[prop]: the proxy's get trap reads the current configuration
NEXUM_CONFIG(prop) == Prop(Deref(getConfig), prop)

\* the properties of `debug` the application assigns, and the values
DebugKeys == {"emptyMutationTagsWarning"}
FlagValues == {"true", "false"}

\* NEXUM_CONFIG[prop] = value: the set trap warns and returns false
AccessorSet ==
    /\ assigns < MaxAssigns
    /\ assigns' = assigns + 1
    /\ warnings' = warnings + 1
    /\ UNCHANGED debugWritten
    /\ UNCHANGED <<cfgVars, revVars, analysisArgs, analysis, storeVars, mergeVars>>

\* NEXUM_CONFIG.debug[key] = value: the get trap hands out the `debug` object
\* of the current configuration, and the assignment is an ordinary one
AccessorSetNested(key, value) ==
    /\ assigns < MaxAssigns
    /\ NEXUM_CONFIG("debug").t = "obj"
    /\ assigns' = assigns + 1
    /\ debugWritten' =
          [debugWritten EXCEPT ![DebugObjOf(getConfig)] =
              Spread(@, [k \in {key} |-> value])]
    /\ UNCHANGED warnings
    /\ UNCHANGED <<cfgVars, revVars, analysisArgs, analysis, storeVars, mergeVars>>

\* the flag read from __DEFAULT_CONFIG__ instead of the live configuration
showEmptyTagsWarningFromDefaults ==
    DEFAULT_CONFIG["debug"].f["emptyMutationTagsWarning"] = "true"

\* NEXUM_CONFIG?.debug?.emptyMutationTagsWarning, as a truth value
showEmptyTagsWarning ==
    LET debug == NEXUM_CONFIG("debug")
    IN  /\ debug.t = "obj"
        /\ "emptyMutationTagsWarning" \in DOMAIN debug.f
        /\ debug.f["emptyMutationTagsWarning"] = "true"

\* NEXUM_CONFIG?.defaultRevalidateFunction
defaultRevalidateFunction ==
    LET p == NEXUM_CONFIG("defaultRevalidateFunction")
    IN  IF p.t = "prim" THEN p.v ELSE "undefined"

\* the strategy with the configured default taken before the per-call option
revalidationStrategyConfigFirst(revalidateFunction) ==
    Coalesce(defaultRevalidateFunction, Coalesce(revalidateFunction, "revalidateTag"))

revalidationStrategy(revalidateFunction) ==
    Coalesce(revalidateFunction, Coalesce(defaultRevalidateFunction, "revalidateTag"))

\* a logger call behind `__IS__DEV__ &&`
DevLine(text) == [line |-> text, tag |-> "", devOnly |-> TRUE]

Probing == {r \in RevCalls : rpc[r] = "probing"}

RevCanIssue(r) == rpc[r] = "idle" /\ \A b \in RevCalls : b < r => rpc[b] # "idle"

\* isNextCacheAvailable() without the memoization check
isNextCacheAvailableNoMemo(r) ==
    /\ rpc' = [rpc EXCEPT ![r] = "probing"]
    /\ rprobed' = [rprobed EXCEPT ![r] = TRUE]
    /\ ravail' = ravail

\* isNextCacheAvailable() up to its first suspension, on behalf of call r
isNextCacheAvailable(r) ==
    IF nextCacheAvailable # "undefined"
    THEN /\ ravail' = [ravail EXCEPT ![r] = nextCacheAvailable]
         /\ rpc' = [rpc EXCEPT ![r] = "resuming"]
         /\ rprobed' = rprobed
    ELSE /\ rpc' = [rpc EXCEPT ![r] = "probing"]
         /\ rprobed' = [rprobed EXCEPT ![r] = TRUE]
         /\ ravail' = ravail

\* revalidateCacheTags() testing for "never" only after the probe
revalidateCacheTagsProbesFirst(r, tags, revalidateFunction, profile) ==
    /\ RevCanIssue(r)
    /\ rtags' = [rtags EXCEPT ![r] = tags]
    /\ rfn' = [rfn EXCEPT ![r] = revalidateFunction]
    /\ rprofile' = [rprofile EXCEPT ![r] = profile]
    /\ isNextCacheAvailable(r)
    /\ rlog' = rlog
    /\ UNCHANGED <<nextCacheModule, revalidateTag, updateTag,
                   nextCacheAvailable, rinvoked, rinflight, rthrewAt>>
    /\ UNCHANGED <<cfgVars, pureVars>>

\* a mutating request whose exchange succeeded calls revalidateCacheTags(),
\* which runs up to `await isNextCacheAvailable()`
revalidateCacheTags(r, tags, revalidateFunction, profile) ==
    /\ RevCanIssue(r)
    /\ rtags' = [rtags EXCEPT ![r] = tags]
    /\ rfn' = [rfn EXCEPT ![r] = revalidateFunction]
    /\ rprofile' = [rprofile EXCEPT ![r] = profile]
    /\ IF tags = Never
       THEN /\ rlog' = [rlog EXCEPT ![r] = <<DevLine("Skipping revalidation")>>]
            /\ rpc' = [rpc EXCEPT ![r] = "returned"]
            /\ UNCHANGED <<ravail, rprobed>>
       ELSE /\ isNextCacheAvailable(r)
            /\ rlog' = rlog
    /\ UNCHANGED <<nextCacheModule, revalidateTag, updateTag,
                   nextCacheAvailable, rinvoked, rinflight, rthrewAt>>
    /\ UNCHANGED <<cfgVars, pureVars>>

\* the try block testing revalidateTag only
ImportResolvesOneExport(r) ==
    /\ rpc[r] = "probing"
    /\ nextCacheModule.loads
    /\ revalidateTag' = nextCacheModule.revalidateTag
    /\ updateTag' = nextCacheModule.updateTag
    /\ LET available == IF nextCacheModule.revalidateTag = "function"
                        THEN "true" ELSE "false"
       IN  /\ nextCacheAvailable' = available
           /\ ravail' = [ravail EXCEPT ![r] = available]
           /\ rlog' = [rlog EXCEPT ![r] =
                         IF available = "true"
                         THEN <<DevLine("revalidation is available")>> ELSE <<>>]
    /\ rpc' = [rpc EXCEPT ![r] = "resuming"]
    /\ UNCHANGED <<nextCacheModule, rtags, rfn, rprofile, rinvoked, rinflight, rprobed, rthrewAt>>
    /\ UNCHANGED <<cfgVars, pureVars>>

\* `await import("next/cache")` resolved: the rest of the try block
ImportResolves(r) ==
    /\ rpc[r] = "probing"
    /\ nextCacheModule.loads
    /\ revalidateTag' = nextCacheModule.revalidateTag
    /\ updateTag' = nextCacheModule.updateTag
    /\ LET available == IF /\ nextCacheModule.revalidateTag = "function"
                           /\ nextCacheModule.updateTag = "function"
                        THEN "true" ELSE "false"
       IN  /\ nextCacheAvailable' = available
           /\ ravail' = [ravail EXCEPT ![r] = available]
           /\ rlog' = [rlog EXCEPT ![r] =
                         IF available = "true"
                         THEN <<DevLine("revalidation is available")>> ELSE <<>>]
    /\ rpc' = [rpc EXCEPT ![r] = "resuming"]
    /\ UNCHANGED <<nextCacheModule, rtags, rfn, rprofile, rinvoked, rinflight, rprobed, rthrewAt>>
    /\ UNCHANGED <<cfgVars, pureVars>>

\* `await import("next/cache")` rejected: the catch block
ImportRejects(r) ==
    /\ rpc[r] = "probing"
    /\ ~nextCacheModule.loads
    /\ nextCacheAvailable' = "false"
    /\ ravail' = [ravail EXCEPT ![r] = "false"]
    /\ rlog' = [rlog EXCEPT ![r] = <<DevLine("revalidation is not available")>>]
    /\ rpc' = [rpc EXCEPT ![r] = "resuming"]
    /\ UNCHANGED <<nextCacheModule, revalidateTag, updateTag, rtags, rfn,
                   rprofile, rinvoked, rinflight, rprobed, rthrewAt>>
    /\ UNCHANGED <<cfgVars, pureVars>>

InvocationsContinue(fn, tags, profile, failAt) ==
    [i \in 1..Len(tags) |-> [fn |-> fn, tag |-> tags[i], profile |-> profile]]

\* the for loop over tags with primitive `fn`: the invocation number failAt
\* throws (0: none does); a reference that is not a function cannot be called
Invocations(fn, tags, profile, failAt) ==
    LET n == IF failAt = 0 THEN Len(tags) ELSE failAt
    IN  [i \in 1..n |-> [fn |-> fn, tag |-> tags[i], profile |-> profile]]

\* the invocations still in progress when the loop ends: none of a primitive
\* that returns undefined; of one that returns a promise, which the loop does
\* not await, each one started that did not throw
InFlight(returns, n, failAt) ==
    IF returns = "promise" THEN {i \in 1..n : i # failAt} ELSE {}

LogLines(fn, tags, n) ==
    [i \in 1..n |-> [line |-> IF fn = "revalidateTag" THEN "Revalidating tag"
                                                     ELSE "Updating tag",
                     tag |-> tags[i], devOnly |-> FALSE]]

RevalidateResumesEmptyFirst(r, failAt) ==
    /\ rpc[r] = "resuming"
    /\ failAt \in 0..Len(rtags[r].list)
    /\ IF rtags[r].kind = "undefined" \/ Len(rtags[r].list) = 0
       THEN /\ failAt = 0
            /\ rlog' = [rlog EXCEPT ![r] =
                          IF showEmptyTagsWarning
                          THEN @ \o <<DevLine("Empty or missing tags")>> ELSE @]
            /\ rpc' = [rpc EXCEPT ![r] = "returned"]
            /\ UNCHANGED <<rinvoked, rinflight, rthrewAt>>
       ELSE IF ravail[r] # "true"
       THEN /\ failAt = 0
            /\ rpc' = [rpc EXCEPT ![r] = "returned"]
            /\ UNCHANGED <<rinvoked, rlog, rinflight, rthrewAt>>
       ELSE LET strategy == revalidationStrategy(rfn[r])
                fn == IF strategy = "revalidateTag" THEN "revalidateTag" ELSE "updateTag"
                ref == IF fn = "revalidateTag" THEN revalidateTag ELSE updateTag
                profile == IF fn = "revalidateTag" THEN Coalesce(rprofile[r], "max")
                                                   ELSE "none"
                tags == rtags[r].list
            IN  IF ref # "function"
                THEN /\ failAt = 1
                     /\ rlog' = [rlog EXCEPT ![r] = @ \o LogLines(fn, tags, 1)]
                     /\ rpc' = [rpc EXCEPT ![r] = "threw"]
                     /\ UNCHANGED <<rinvoked, rinflight, rthrewAt>>
                ELSE /\ rinvoked' = [rinvoked EXCEPT ![r] = Invocations(fn, tags, profile, failAt)]
                     /\ rlog' = [rlog EXCEPT ![r] =
                                   @ \o LogLines(fn, tags, Len(Invocations(fn, tags, profile, failAt)))]
                     /\ rinflight' = [rinflight EXCEPT ![r] =
                           InFlight(nextCacheModule.returns,
                                    Len(Invocations(fn, tags, profile, failAt)), failAt)]
                     /\ rthrewAt' = [rthrewAt EXCEPT ![r] = failAt]
                     /\ rpc' = [rpc EXCEPT ![r] = IF failAt = 0 THEN "returned" ELSE "threw"]
    /\ UNCHANGED <<nextCacheModule, revalidateTag, updateTag, nextCacheAvailable,
                   rtags, rfn, rprofile, ravail, rprobed>>
    /\ UNCHANGED <<cfgVars, pureVars>>

\* revalidateCacheTags() from the `await isNextCacheAvailable()` to its end
RevalidateResumes(r, failAt) ==
    /\ rpc[r] = "resuming"
    /\ failAt \in 0..Len(rtags[r].list)
    /\ IF ravail[r] # "true"
       THEN /\ failAt = 0
            /\ rpc' = [rpc EXCEPT ![r] = "returned"]
            /\ UNCHANGED <<rinvoked, rlog, rinflight, rthrewAt>>
       ELSE IF rtags[r].kind = "undefined" \/ Len(rtags[r].list) = 0
       THEN /\ failAt = 0
            /\ rlog' = [rlog EXCEPT ![r] =
                          IF showEmptyTagsWarning
                          THEN @ \o <<DevLine("Empty or missing tags")>> ELSE @]
            /\ rpc' = [rpc EXCEPT ![r] = "returned"]
            /\ UNCHANGED <<rinvoked, rinflight, rthrewAt>>
       ELSE LET strategy == revalidationStrategy(rfn[r])
                fn == IF strategy = "revalidateTag" THEN "revalidateTag" ELSE "updateTag"
                ref == IF fn = "revalidateTag" THEN revalidateTag ELSE updateTag
                profile == IF fn = "revalidateTag" THEN Coalesce(rprofile[r], "max")
                                                   ELSE "none"
                tags == rtags[r].list
            IN  IF ref # "function"
                THEN /\ failAt = 1
                     /\ rlog' = [rlog EXCEPT ![r] = @ \o LogLines(fn, tags, 1)]
                     /\ rpc' = [rpc EXCEPT ![r] = "threw"]
                     /\ UNCHANGED <<rinvoked, rinflight, rthrewAt>>
                ELSE /\ rinvoked' = [rinvoked EXCEPT ![r] = Invocations(fn, tags, profile, failAt)]
                     /\ rlog' = [rlog EXCEPT ![r] =
                                   @ \o LogLines(fn, tags, Len(Invocations(fn, tags, profile, failAt)))]
                     /\ rinflight' = [rinflight EXCEPT ![r] =
                           InFlight(nextCacheModule.returns,
                                    Len(Invocations(fn, tags, profile, failAt)), failAt)]
                     /\ rthrewAt' = [rthrewAt EXCEPT ![r] = failAt]
                     /\ rpc' = [rpc EXCEPT ![r] = IF failAt = 0 THEN "returned" ELSE "threw"]
    /\ UNCHANGED <<nextCacheModule, revalidateTag, updateTag, nextCacheAvailable,
                   rtags, rfn, rprofile, ravail, rprobed>>
    /\ UNCHANGED <<cfgVars, pureVars>>

\* the promise returned by invocation i of call r settles
PrimitiveCompletes(r, i) ==
    /\ i \in rinflight[r]
    /\ rinflight' = [rinflight EXCEPT ![r] = @ \ {i}]
    /\ UNCHANGED <<nextCacheModule, revalidateTag, updateTag, nextCacheAvailable,
                   rpc, rtags, rfn, rprofile, ravail, rinvoked, rlog, rprobed, rthrewAt>>
    /\ UNCHANGED <<cfgVars, pureVars>>

\* the mutating request around call r (POST, PUT, PATCH, DELETE): its
\* `await revalidateCacheTags(...)` has no handler, then it returns the envelope
MutationOutcome(r) ==
    IF rpc[r] = "threw" THEN "rejected"
    ELSE IF rpc[r] = "returned" THEN "fulfilled"
    ELSE "pending"

---------------------------------------------------------------------------
(* JavaScript strings and numbers, for the cache classifier *)

\* A string is the sequence of its characters. What Headers.get() returns is
\* a string or null.
NullHeader == [present |-> FALSE, s |-> <<>>]
Str(chars) == [present |-> TRUE, s |-> chars]

\* the truth value of `string | null`: null and "" are falsy
Truthy(h) == h.present /\ Len(h.s) > 0

LowerCase == <<"a","b","c","d","e","f","g","h","i","j","k","l","m",
               "n","o","p","q","r","s","t","u","v","w","x","y","z">>
UpperCase == <<"A","B","C","D","E","F","G","H","I","J","K","L","M",
               "N","O","P","Q","R","S","T","U","V","W","X","Y","Z">>

\* String.prototype.toUpperCase
toUpperCase(str) ==
    [i \in 1..Len(str) |->
        IF \E k \in 1..26 : LowerCase[k] = str[i]
        THEN UpperCase[CHOOSE k \in 1..26 : LowerCase[k] = str[i]]
        ELSE str[i]]

DigitChars == <<"0","1","2","3","4","5","6","7","8","9">>
IsDigit(c) == \E k \in 1..10 : DigitChars[k] = c
DigitValue(c) == (CHOOSE k \in 1..10 : DigitChars[k] = c) - 1

\* the decimal digits of a natural number, as a server writes it in a header
RECURSIVE ToDigits(_)
ToDigits(n) ==
    IF n < 10 THEN <<DigitChars[n + 1]>>
    ELSE ToDigits(n \div 10) \o <<DigitChars[(n % 10) + 1]>>

\* length of the run of decimal digits of str that starts at position i
RECURSIVE DigitRun(_, _)
DigitRun(str, i) ==
    IF i <= Len(str) /\ IsDigit(str[i]) THEN 1 + DigitRun(str, i + 1) ELSE 0

\* the number written by a sequence of decimal digits
RECURSIVE DecimalValue(_)
DecimalValue(digits) ==
    IF Len(digits) = 0 THEN 0
    ELSE 10 * DecimalValue(SubSeq(digits, 1, Len(digits) - 1)) + DigitValue(digits[Len(digits)])

\* a JavaScript number that is an integer or NaN
NaN == [nan |-> TRUE, n |-> 0]
Num(n) == [nan |-> FALSE, n |-> n]

\* a > b on numbers: false when either is NaN
GreaterThan(a, b) == ~a.nan /\ ~b.nan /\ a.n > b.n

\* first position of str that is not white space
RECURSIVE SkipSpaces(_, _)
SkipSpaces(str, i) ==
    IF i <= Len(str) /\ str[i] = " " THEN SkipSpaces(str, i + 1) ELSE i

\* Number.parseInt(str) for the decimal notation: leading white space, a
\* sign, then the longest run of digits; NaN when there is no digit
parseInt(str) ==
    LET i == SkipSpaces(str, 1)
        signed == i <= Len(str) /\ str[i] \in {"+", "-"}
        j == IF signed THEN i + 1 ELSE i
        n == DigitRun(str, j)
        value == DecimalValue(SubSeq(str, j, j + n - 1))
    IN  IF n = 0 THEN NaN
        ELSE IF signed /\ str[i] = "-" THEN Num(0 - value) ELSE Num(value)

\* whether pat occurs in str at position i
OccursAt(str, pat, i) ==
    /\ i + Len(pat) - 1 <= Len(str)
    /\ SubSeq(str, i, i + Len(pat) - 1) = pat

\* String.prototype.includes
includes(str, pat) == \E i \in 1..(Len(str) + 1) : OccursAt(str, pat, i)

MaxAgeEquals == <<"m","a","x","-","a","g","e","=">>
StaleWhileRevalidate ==
    <<"s","t","a","l","e","-","w","h","i","l","e","-","r","e","v","a","l","i","d","a","t","e">>

\* cacheControl.match(/max-age=(\d+)/): the leftmost "max-age=" that is
\* followed by a digit, and the longest run of digits after it as group 1
maxAgeMatch(cacheControl) ==
    LET at(i) == OccursAt(cacheControl, MaxAgeEquals, i)
                 /\ DigitRun(cacheControl, i + Len(MaxAgeEquals)) > 0
        hits == {i \in 1..Len(cacheControl) : at(i)}
    IN  IF hits = {} THEN [matched |-> FALSE, group |-> <<>>]
        ELSE LET i == CHOOSE k \in hits : \A o \in hits : k <= o
                 from == i + Len(MaxAgeEquals)
             IN  [matched |-> TRUE,
                  group |-> SubSeq(cacheControl, from,
                                   from + DigitRun(cacheControl, from) - 1)]

---------------------------------------------------------------------------
(* Cache classifier *)

HIT == <<"H","I","T">>
MISS == <<"M","I","S","S">>
STALE == <<"S","T","A","L","E">>
REVALIDATED == <<"R","E","V","A","L","I","D","A","T","E","D">>

\* revalidate?: number | false
NoRevalidate == [t |-> "undefined", n |-> 0]
RevalidateFalse == [t |-> "boolean", n |-> 0]
RevalidateSeconds(n) == [t |-> "number", n |-> n]
TruthyRevalidate(revalidate) == revalidate.t = "number" /\ revalidate.n # 0

Max(a, b) == IF a >= b THEN a ELSE b

\* `let status = "MISS"; let confidence = 0.5` and the empty list of
\* indicators. A confidence is written in hundredths: 50 is 0.5. An indicator
\* is written as the name of the rule that pushed it.
InitialAnalysis == [status |-> MISS, confidence |-> 50, indicators |-> <<>>]

\* the two headers tested in the other order
providerHeadersVercelFirst(a, xNextjsCache, xVercelCache) ==
    IF Truthy(xVercelCache)
    THEN [status |-> toUpperCase(xVercelCache.s), confidence |-> 90,
          indicators |-> Append(a.indicators, "x-vercel-cache")]
    ELSE IF Truthy(xNextjsCache)
    THEN [status |-> toUpperCase(xNextjsCache.s), confidence |-> 95,
          indicators |-> Append(a.indicators, "x-nextjs-cache")]
    ELSE a

\* Direct Next.js cache headers
providerHeaders(a, xNextjsCache, xVercelCache) ==
    IF Truthy(xNextjsCache)
    THEN [status |-> toUpperCase(xNextjsCache.s), confidence |-> 95,
          indicators |-> Append(a.indicators, "x-nextjs-cache")]
    ELSE IF Truthy(xVercelCache)
    THEN [status |-> toUpperCase(xVercelCache.s), confidence |-> 90,
          indicators |-> Append(a.indicators, "x-vercel-cache")]
    ELSE a

\* the timing rule assigning its confidence instead of taking the maximum
timingAnalysisAssigns(a, duration, revalidate) ==
    IF duration < 5
    THEN [status |-> HIT, confidence |-> 80,
          indicators |-> Append(a.indicators, "very fast response")]
    ELSE IF duration < 20 /\ TruthyRevalidate(revalidate)
    THEN [status |-> HIT, confidence |-> 70,
          indicators |-> Append(a.indicators, "fast cached response")]
    ELSE a

\* Timing analysis
timingAnalysis(a, duration, revalidate) ==
    IF duration < 5
    THEN [status |-> HIT, confidence |-> Max(a.confidence, 80),
          indicators |-> Append(a.indicators, "very fast response")]
    ELSE IF duration < 20 /\ TruthyRevalidate(revalidate)
    THEN [status |-> HIT, confidence |-> Max(a.confidence, 70),
          indicators |-> Append(a.indicators, "fast cached response")]
    ELSE a

\* Age header analysis
ageHeaderAnalysis(a, age) ==
    IF Truthy(age) /\ GreaterThan(parseInt(age.s), Num(0))
    THEN [status |-> HIT, confidence |-> Max(a.confidence, 80),
          indicators |-> Append(a.indicators, "age header")]
    ELSE a

\* Cache-Control analysis: an indicator only
cacheControlAnalysis(a, cacheControl) ==
    IF /\ Truthy(cacheControl)
       /\ maxAgeMatch(cacheControl.s).matched
       /\ includes(cacheControl.s, StaleWhileRevalidate)
    THEN [a EXCEPT !.indicators = Append(@, "cache-control")]
    ELSE a

\* stale detection with `ageSeconds >= maxAge`
staleDetectionAtMaxAge(a, age, cacheControl) ==
    IF /\ a.status = HIT
       /\ Truthy(age)
       /\ Truthy(cacheControl)
       /\ maxAgeMatch(cacheControl.s).matched
       /\ ~GreaterThan(parseInt(maxAgeMatch(cacheControl.s).group), parseInt(age.s))
       /\ ~parseInt(age.s).nan
    THEN [a EXCEPT !.status = STALE, !.indicators = Append(@, "stale")]
    ELSE a

\* Stale detection
staleDetection(a, age, cacheControl) ==
    IF /\ a.status = HIT
       /\ Truthy(age)
       /\ Truthy(cacheControl)
       /\ maxAgeMatch(cacheControl.s).matched
       /\ GreaterThan(parseInt(age.s), parseInt(maxAgeMatch(cacheControl.s).group))
    THEN [a EXCEPT !.status = STALE, !.indicators = Append(@, "stale")]
    ELSE a

\* the no-store rule leaving a HIT alone
noStoreUnlessHit(a, cache) ==
    IF cache = "no-store" /\ a.status # HIT
    THEN [status |-> MISS, confidence |-> 95,
          indicators |-> Append(a.indicators, "cache: no-store")]
    ELSE a

\* If cache is 'no-store', it's always a miss
noStore(a, cache) ==
    IF cache = "no-store"
    THEN [status |-> MISS, confidence |-> 95,
          indicators |-> Append(a.indicators, "cache: no-store")]
    ELSE a

\* response: what headers.get() returns for the four headers read;
\* requestInit: revalidate and cache (tags is passed through); timing
analyzeCacheStatus(response, requestInit, timing) ==
    LET duration == timing.end - timing.start
        a1 == providerHeaders(InitialAnalysis, response.xNextjsCache, response.xVercelCache)
        a2 == timingAnalysis(a1, duration, requestInit.revalidate)
        a3 == ageHeaderAnalysis(a2, response.age)
        a4 == cacheControlAnalysis(a3, response.cacheControl)
        a5 == staleDetection(a4, response.age, response.cacheControl)
        a6 == noStore(a5, requestInit.cache)
    IN  [status |-> a6.status,
         confidence |-> a6.confidence,
         indicators |-> IF Len(a6.indicators) = 0 THEN <<"no indicators">>
                                                  ELSE a6.indicators,
         metadata |-> [age |-> IF Truthy(response.age) THEN <<parseInt(response.age.s)>>
                                                       ELSE <<>>,
                       revalidate |-> requestInit.revalidate,
                       duration |-> duration,
                       strategy |-> requestInit.cache]]

\* the header values, options and timings the classifier is called with
XNextjsCacheValues ==
    {NullHeader, Str(<<>>), Str(HIT), Str(<<"h","i","t">>), Str(STALE)}
XVercelCacheValues ==
    {NullHeader, Str(MISS), Str(<<"P","R","E","R","E","N","D","E","R">>)}
Seconds == {0, 60, MaxSeconds}
AgeValues ==
    {NullHeader, Str(<<>>), Str(<<"a","b","c">>)} \cup {Str(ToDigits(n)) : n \in Seconds}
MaxAgeDirective(n) == MaxAgeEquals \o ToDigits(n)
CacheControlValues ==
    {NullHeader, Str(<<"n","o","-","c","a","c","h","e">>), Str(MaxAgeEquals),
     Str(MaxAgeDirective(60) \o <<",", " ">> \o StaleWhileRevalidate \o <<"=","3","0">>)}
    \cup {Str(MaxAgeDirective(n)) : n \in {60, MaxSeconds}}
Responses ==
    [xNextjsCache : XNextjsCacheValues, xVercelCache : XVercelCacheValues,
     age : AgeValues, cacheControl : CacheControlValues]
RequestInits ==
    [revalidate : {NoRevalidate, RevalidateFalse, RevalidateSeconds(0), RevalidateSeconds(60)},
     cache : {"undefined", "no-store", "force-cache"}]
Durations == {4, 5, 19, 20, MaxDuration}
Timings == {[start |-> 1000, end |-> 1000 + d] : d \in Durations}
AnalysisArgs == [response : Responses, requestInit : RequestInits, timing : Timings]

\* a GET request hands its response, options and timings to the classifier
GetAnalyzesCache ==
    /\ Len(analysisArgs) > 0
    /\ analysis = <<>>
    /\ LET args == analysisArgs[1]
       IN  analysis' = <<analyzeCacheStatus(args.response, args.requestInit, args.timing)>>
    /\ UNCHANGED <<analysisArgs, storeVars, accessorVars, mergeVars, cfgVars, revVars>>

---------------------------------------------------------------------------
(* Tag store *)

\* the elements of a sequence
Range(seq) == {seq[i] : i \in 1..Len(seq)}

\* Set.prototype.add on a Set written as its elements in insertion order
SetAdd(set, x) == IF x \in Range(set) THEN set ELSE Append(set, x)

RECURSIVE SetAddAll(_, _)
SetAddAll(set, xs) ==
    IF Len(xs) = 0 THEN set ELSE SetAddAll(SetAdd(set, xs[1]), Tail(xs))

\* a Map written as its entries [key, value] in insertion order
MapHas(map, k) == \E i \in 1..Len(map) : map[i].key = k
MapGet(map, k) == map[CHOOSE i \in 1..Len(map) : map[i].key = k].value
MapSet(map, k, v) ==
    IF MapHas(map, k)
    THEN [i \in 1..Len(map) |-> IF map[i].key = k THEN [key |-> k, value |-> v] ELSE map[i]]
    ELSE Append(map, [key |-> k, value |-> v])

\* String.prototype.indexOf for one character: zero-based, -1 when absent
indexOf(str, c) ==
    IF \E i \in 1..Len(str) : str[i] = c
    THEN (CHOOSE i \in 1..Len(str) : str[i] = c /\ \A j \in 1..(i - 1) : str[j] # c) - 1
    ELSE -1

\* String.prototype.substring(start, end), zero-based, end excluded
substring(str, start, end) == SubSeq(str, start + 1, end)

\* the constructor's loop over the first n tags: groupsMap
RECURSIVE ConstructGroupsMap(_, _)
ConstructGroupsMap(tags, n) ==
    IF n = 0 THEN <<>>
    ELSE LET map == ConstructGroupsMap(tags, n - 1)
             colonIndex == indexOf(tags[n], ":")
             group == substring(tags[n], 0, colonIndex)
         IN  IF colonIndex > 0
             THEN IF MapHas(map, group)
                  THEN MapSet(map, group, SetAdd(MapGet(map, group), tags[n]))
                  ELSE MapSet(map, group, <<tags[n]>>)
             ELSE map

RECURSIVE ConstructTagToGroupMapAnyColon(_, _)
ConstructTagToGroupMapAnyColon(tags, n) ==
    IF n = 0 THEN <<>>
    ELSE LET map == ConstructTagToGroupMapAnyColon(tags, n - 1)
             colonIndex == indexOf(tags[n], ":")
         IN  IF colonIndex >= 0
             THEN MapSet(map, tags[n], substring(tags[n], 0, colonIndex))
             ELSE map

\* the constructor's loop over the first n tags: tagToGroupMap
RECURSIVE ConstructTagToGroupMap(_, _)
ConstructTagToGroupMap(tags, n) ==
    IF n = 0 THEN <<>>
    ELSE LET map == ConstructTagToGroupMap(tags, n - 1)
             colonIndex == indexOf(tags[n], ":")
         IN  IF colonIndex > 0
             THEN MapSet(map, tags[n], substring(tags[n], 0, colonIndex))
             ELSE map

\* new TagStore({ tags })
TagStore(tags) ==
    /\ storeConfig = tags
    /\ tagsSet = Range(tags)
    /\ groupsMap = ConstructGroupsMap(tags, Len(tags))
    /\ tagToGroupMap = ConstructTagToGroupMap(tags, Len(tags))

hasTag(tagName) == tagName \in tagsSet

hasGroup(groupName) == MapHas(groupsMap, groupName)

\* Array.from(this.groupsMap.get(groupName) || [])
getTagsByGroup(groupName) ==
    IF MapHas(groupsMap, groupName) THEN MapGet(groupsMap, groupName) ELSE <<>>

RECURSIVE ExpandItemsKeepsUnknown(_, _)
ExpandItemsKeepsUnknown(items, n) ==
    IF n = 0 THEN <<>>
    ELSE LET expanded == ExpandItemsKeepsUnknown(items, n - 1)
         IN  IF hasGroup(items[n]) THEN SetAddAll(expanded, getTagsByGroup(items[n]))
             ELSE SetAdd(expanded, items[n])

\* the loop of expandGroupsToTags() over the first n items
RECURSIVE ExpandItems(_, _)
ExpandItems(items, n) ==
    IF n = 0 THEN <<>>
    ELSE LET expanded == ExpandItems(items, n - 1)
         IN  IF hasGroup(items[n]) THEN SetAddAll(expanded, getTagsByGroup(items[n]))
             ELSE IF hasTag(items[n]) THEN SetAdd(expanded, items[n])
             ELSE expanded

expandGroupsToTags(items) == ExpandItems(items, Len(items))

\* the tag names of the catalogs: two groups, a tag named like a group, and a
\* name that begins with a colon
CatalogNames ==
    { <<"g",":","a">>, <<"g",":","b">>, <<"h",":","a">>, <<"g">>, <<":","x">> }

\* the items asked for: groups, tags, and a name that is neither
ItemNames ==
    { <<"g">>, <<"h">>, <<"g",":","a">>, <<":","x">>, <<"z">> }

\* the sequences over S of length at most n
SeqsUpTo(S, n) == UNION {[1..k -> S] : k \in 0..n}

Catalogs == SeqsUpTo(CatalogNames, MaxCatalog)
ItemLists == SeqsUpTo(ItemNames, MaxItems)

\* tagToGroupMap.get(tagName): undefined is the empty sequence
getTagGroup(tagName) ==
    IF MapHas(tagToGroupMap, tagName) THEN <<MapGet(tagToGroupMap, tagName)>> ELSE <<>>

\* Array.from(this.groupsMap.keys())
getAllGroups == [i \in 1..Len(groupsMap) |-> groupsMap[i].key]

\* config.tags.filter((tag) => !tag.name.includes(":")).map((tag) => tag.name)
getStandaloneTags == SelectSeq(storeConfig, LAMBDA name : ~includes(name, <<":">>))

validateTagsAndGroupsTagsOnly(items) ==
    LET valid == SelectSeq(items, LAMBDA item : hasTag(item))
        invalid == SelectSeq(items, LAMBDA item : ~hasTag(item))
    IN  [valid |-> valid, invalid |-> invalid, expandedTags |-> expandGroupsToTags(valid)]

\* the loop pushes each item on valid or on invalid, in order
validateTagsAndGroups(items) ==
    LET valid == SelectSeq(items, LAMBDA item : hasTag(item) \/ hasGroup(item))
        invalid == SelectSeq(items, LAMBDA item : ~(hasTag(item) \/ hasGroup(item)))
    IN  [valid |-> valid, invalid |-> invalid, expandedTags |-> expandGroupsToTags(valid)]

\* the application makes one call on the store: no call has returned yet
NoStoreCall ==
    /\ Len(storeItems) > 0
    /\ expandedTags = <<>>
    /\ validated = <<>>
    /\ tagGroup = <<>>
    /\ standaloneTags = <<>>

\* the application expands a list of tags and groups
ExpandGroupsToTags ==
    /\ NoStoreCall
    /\ expandedTags' = <<expandGroupsToTags(storeItems[1])>>
    /\ UNCHANGED <<storeConfig, tagsSet, groupsMap, tagToGroupMap, storeItems>>
    /\ UNCHANGED <<validated, tagGroup, standaloneTags>>
    /\ UNCHANGED <<analysisArgs, analysis, accessorVars, mergeVars, cfgVars, revVars>>

\* the application validates a list of tags and groups
ValidateTagsAndGroups ==
    /\ NoStoreCall
    /\ validated' = <<validateTagsAndGroups(storeItems[1])>>
    /\ UNCHANGED <<storeConfig, tagsSet, groupsMap, tagToGroupMap, storeItems>>
    /\ UNCHANGED <<expandedTags, tagGroup, standaloneTags>>
    /\ UNCHANGED <<analysisArgs, analysis, accessorVars, mergeVars, cfgVars, revVars>>

\* the application asks for the group of one of the names
GetTagGroup ==
    /\ NoStoreCall
    /\ \E tagName \in Range(storeItems[1]) :
          tagGroup' = <<[tagName |-> tagName, group |-> getTagGroup(tagName)]>>
    /\ UNCHANGED <<storeConfig, tagsSet, groupsMap, tagToGroupMap, storeItems>>
    /\ UNCHANGED <<expandedTags, validated, standaloneTags>>
    /\ UNCHANGED <<analysisArgs, analysis, accessorVars, mergeVars, cfgVars, revVars>>

\* the application lists the tags that have no group
GetStandaloneTags ==
    /\ NoStoreCall
    /\ standaloneTags' = <<getStandaloneTags>>
    /\ UNCHANGED <<storeConfig, tagsSet, groupsMap, tagToGroupMap, storeItems>>
    /\ UNCHANGED <<expandedTags, validated, tagGroup>>
    /\ UNCHANGED <<analysisArgs, analysis, accessorVars, mergeVars, cfgVars, revVars>>

---------------------------------------------------------------------------
(* Specification *)

\* the two modules once they are loaded: `const initPromise = loadConfig()`
\* has started the first discovery, and the capability is unprobed
InitModules ==
    /\ configCache = NullCfg
    /\ configPromise = 0
    /\ dstate = [d \in DiscIds |-> IF d = 0 THEN "running" ELSE "unstarted"]
    /\ dres = [d \in DiscIds |-> NullCfg]
    /\ nextDisc = 1
    /\ cpc = [c \in CfgCalls |-> "idle"]
    /\ ckind = [c \in CfgCalls |-> "none"]
    /\ con = [c \in CfgCalls |-> Null]
    /\ cres = [c \in CfgCalls |-> NullCfg]
    /\ csrc = [c \in CfgCalls |-> Null]
    /\ cfloor = [c \in CfgCalls |-> 0]
    /\ cacheSrc = Null
    /\ writes = 0
    /\ reloads = 0
    /\ lastLoaded = NullCfg
    /\ revalidateTag = "undefined"
    /\ updateTag = "undefined"
    /\ nextCacheAvailable = "undefined"
    /\ rpc = [r \in RevCalls |-> "idle"]
    /\ rtags = [r \in RevCalls |-> Absent]
    /\ rfn = [r \in RevCalls |-> "undefined"]
    /\ rprofile = [r \in RevCalls |-> "undefined"]
    /\ ravail = [r \in RevCalls |-> "undefined"]
    /\ rinvoked = [r \in RevCalls |-> <<>>]
    /\ rlog = [r \in RevCalls |-> <<>>]
    /\ rinflight = [r \in RevCalls |-> {}]
    /\ rprobed = [r \in RevCalls |-> FALSE]
    /\ rthrewAt = [r \in RevCalls |-> 0]
    /\ debugWritten = [o \in DebugObjIds |-> NoFields]
    /\ assigns = 0
    /\ warnings = 0
    /\ mergeResult = <<>>

\* the state once the modules are loaded, in any host
Init ==
    /\ InitModules
    /\ nextCacheModule \in HostModules
    /\ analysisArgs = <<>>
    /\ analysis = <<>>
    /\ mergeArgs = <<>>
    /\ TagStore(<<>>)
    /\ storeItems = <<>>
    /\ expandedTags = <<>>
    /\ validated = <<>>
    /\ tagGroup = <<>>
    /\ standaloneTags = <<>>

\* a GET request about to call the classifier with any of the arguments; the
\* classifier reads no variable of the two modules, the host is one without
\* next/cache
InitClassifier ==
    /\ InitModules
    /\ nextCacheModule = [loads |-> FALSE, revalidateTag |-> "undefined",
                          updateTag |-> "undefined", returns |-> "undefined"]
    /\ analysisArgs \in {<<args>> : args \in AnalysisArgs}
    /\ analysis = <<>>
    /\ mergeArgs = <<>>
    /\ TagStore(<<>>)
    /\ storeItems = <<>>
    /\ expandedTags = <<>>
    /\ validated = <<>>
    /\ tagGroup = <<>>
    /\ standaloneTags = <<>>

\* a TagStore constructed with any of the catalogs, and the application
\* about to expand any of the lists of items; the store reads no variable of
\* the two modules
InitTagStore ==
    /\ InitModules
    /\ nextCacheModule = [loads |-> FALSE, revalidateTag |-> "undefined",
                          updateTag |-> "undefined", returns |-> "undefined"]
    /\ analysisArgs = <<>>
    /\ analysis = <<>>
    /\ mergeArgs = <<>>
    /\ \E tags \in Catalogs : TagStore(tags)
    /\ storeItems \in {<<items>> : items \in ItemLists}
    /\ expandedTags = <<>>
    /\ validated = <<>>
    /\ tagGroup = <<>>
    /\ standaloneTags = <<>>

\* the configuration store on its own
NextConfig ==
    \/ \E c \in CfgCalls : getConfigAsync(c)
    \/ \E c \in CfgCalls : reloadConfig(c)
    \/ \E d \in DiscIds, found \in UserConfigs \cup {NoConfig} : DiscoveryReturns(d, found)
    \/ \E d \in DiscIds : DiscoveryThrows(d)
    \/ \E c \in CfgCalls : ConfigResolves(c)

SpecConfig == Init /\ [][NextConfig]_vars

\* the dispatcher on its own, called with every combination of arguments
NextReval ==
    \/ \E r \in RevCalls, a \in RevArgs : revalidateCacheTags(r, a[1], a[2], a[3])
    \/ \E r \in RevCalls : ImportResolves(r)
    \/ \E r \in RevCalls : ImportRejects(r)
    \/ \E r \in RevCalls, failAt \in 0..MaxTags : RevalidateResumes(r, failAt)

SpecReval == Init /\ [][NextReval]_vars

\* both together: mutating requests of the HTTP verbs while the application
\* reloads a configuration file that is found and loads; the primitives
\* do not throw
Next ==
    \/ reloadConfig(1)
    \/ \E d \in DiscIds, found \in UserConfigs : DiscoveryReturns(d, found)
    \/ ConfigResolves(1)
    \/ \E r \in RevCalls, a \in VerbArgs : revalidateCacheTags(r, a[1], a[2], a[3])
    \/ \E r \in RevCalls : ImportResolves(r)
    \/ \E r \in RevCalls : ImportRejects(r)
    \/ \E r \in RevCalls : RevalidateResumes(r, 0)

Spec == Init /\ [][Next]_vars

\* the dispatcher called with a list of tags and each per-call strategy,
\* while the application reloads a configuration file that sets a default
\* strategy; the primitives do not throw
NextStrategy ==
    \/ reloadConfig(1)
    \/ \E d \in DiscIds, found \in UserConfigs : DiscoveryReturns(d, found)
    \/ ConfigResolves(1)
    \/ \E r \in RevCalls, a \in StrategyArgs : revalidateCacheTags(r, a[1], a[2], a[3])
    \/ \E r \in RevCalls : ImportResolves(r)
    \/ \E r \in RevCalls : ImportRejects(r)
    \/ \E r \in RevCalls : RevalidateResumes(r, 0)

SpecStrategy == Init /\ [][NextStrategy]_vars

\* the HTTP verbs' calls with the promises of the primitives settling in any
\* order; the primitives do not throw
NextPrimitives ==
    \/ \E r \in RevCalls, a \in VerbArgs : revalidateCacheTags(r, a[1], a[2], a[3])
    \/ \E r \in RevCalls : ImportResolves(r)
    \/ \E r \in RevCalls : ImportRejects(r)
    \/ \E r \in RevCalls : RevalidateResumes(r, 0)
    \/ \E r \in RevCalls, i \in 1..MaxTags : PrimitiveCompletes(r, i)

SpecPrimitives == Init /\ [][NextPrimitives]_vars

\* the objects handed to mergeDeepConfig(): the built-in defaults, and
\* defaults whose `debug` is null or an array
MergeDefaults ==
    { DEFAULT_CONFIG,
      [DEFAULT_CONFIG EXCEPT !["debug"] = NullValue],
      [DEFAULT_CONFIG EXCEPT !["debug"] = ArrayValue] }

\* the values a discovered file may hold at a key
MergeValues ==
    { Undefined, Prim("Token"), NullValue, ArrayValue,
      Obj([ cacheLogging |-> "false" ]),
      Obj([ showCacheStrategy |-> "true" ]) }

KeyNames == <<"debug", "tokenVerb", "defaultRevalidateFunction", "serverUrl", "sessionCookieName">>
MergeKeys == {KeyNames[i] : i \in {j \in 1..MaxKeys : j <= Len(KeyNames)}}

\* the discovered objects: any of the values at any subset of the keys
MergeUserConfigs == UNION {[keys -> MergeValues] : keys \in SUBSET MergeKeys}

\* mergeDeepConfig() about to be called with any of the arguments; it reads
\* no variable of the two modules
InitMerge ==
    /\ InitModules
    /\ nextCacheModule = [loads |-> FALSE, revalidateTag |-> "undefined",
                          updateTag |-> "undefined", returns |-> "undefined"]
    /\ analysisArgs = <<>>
    /\ analysis = <<>>
    /\ mergeArgs \in {<<[defaultConfig |-> d, userConfig |-> u]>> :
                          d \in MergeDefaults, u \in MergeUserConfigs}
    /\ TagStore(<<>>)
    /\ storeItems = <<>>
    /\ expandedTags = <<>>
    /\ validated = <<>>
    /\ tagGroup = <<>>
    /\ standaloneTags = <<>>

\* loadConfig() merges what discovery found: the function writes its own
\* `result` object only
MergeDeepConfig ==
    /\ Len(mergeArgs) > 0
    /\ mergeResult = <<>>
    /\ mergeResult' = <<mergeDeepConfig(mergeArgs[1].defaultConfig, mergeArgs[1].userConfig)>>
    /\ UNCHANGED mergeArgs
    /\ UNCHANGED <<analysisArgs, analysis, storeVars, accessorVars, cfgVars, revVars>>

NextMerge == MergeDeepConfig

SpecMerge == InitMerge /\ [][NextMerge]_vars

\* the configuration store in a host without next/cache (the store reads
\* nothing of the host)
InitAccessor ==
    /\ InitModules
    /\ nextCacheModule = [loads |-> FALSE, revalidateTag |-> "undefined",
                          updateTag |-> "undefined", returns |-> "undefined"]
    /\ analysisArgs = <<>>
    /\ analysis = <<>>
    /\ mergeArgs = <<>>
    /\ TagStore(<<>>)
    /\ storeItems = <<>>
    /\ expandedTags = <<>>
    /\ validated = <<>>
    /\ tagGroup = <<>>
    /\ standaloneTags = <<>>

NextAccessor ==
    \/ \E c \in CfgCalls : getConfigAsync(c)
    \/ \E c \in CfgCalls : reloadConfig(c)
    \/ \E d \in DiscIds, found \in UserConfigs \cup {NoConfig} : DiscoveryReturns(d, found)
    \/ \E d \in DiscIds : DiscoveryThrows(d)
    \/ \E c \in CfgCalls : ConfigResolves(c)
    \/ AccessorSet
    \/ \E key \in DebugKeys, value \in FlagValues : AccessorSetNested(key, value)

SpecAccessor == InitAccessor /\ [][NextAccessor]_vars

\* The configuration store when no step waits for ever: every discovery that
\* was started completes (`await explorer.search()` settles), and the event
\* loop runs the continuation of every caller whose promise has settled.
ConfigFairness ==
    /\ \A d \in DiscIds :
          WF_vars(\/ \E found \in UserConfigs \cup {NoConfig} : DiscoveryReturns(d, found)
                  \/ DiscoveryThrows(d))
    /\ \A c \in CfgCalls : WF_vars(ConfigResolves(c))

SpecConfigFair == InitAccessor /\ [][NextConfig]_vars /\ ConfigFairness

\* the classifier, applied to each of the arguments
NextClassifier == GetAnalyzesCache

SpecClassifier == InitClassifier /\ [][NextClassifier]_vars

\* the tag store, asked one thing about each list of items
NextTagStore ==
    \/ ExpandGroupsToTags
    \/ ValidateTagsAndGroups
    \/ GetTagGroup
    \/ GetStandaloneTags

SpecTagStore == InitTagStore /\ [][NextTagStore]_vars

TypeOK ==
    /\ configPromise \in DiscIds \cup {Null}
    /\ nextDisc \in 1..MaxDisc
    /\ \A c \in CfgCalls : cpc[c] \in {"idle", "awaiting", "resolved"}

---------------------------------------------------------------------------
(* Properties of the configuration store *)

Resolved(c) == cpc[c] = "resolved"

\* C1: during a cold start (no reloadConfig() so far) exactly one discovery
\* is started, every getConfigAsync() issued while it is in flight awaits
\* that discovery's promise, and all callers resolve to the identical
\* configuration object.
C1_SingleFlightColdStart ==
    reloads = 0 =>
        /\ nextDisc = 1
        /\ dstate[0] = "running" => configPromise = 0
        /\ \A c \in CfgCalls : cpc[c] = "awaiting" => con[c] = 0
        /\ \A c \in CfgCalls : Resolved(c) => cres[c] = dres[0] /\ cres[c] # NullCfg
        /\ \A c1, c2 \in CfgCalls : Resolved(c1) /\ Resolved(c2) => cres[c1] = cres[c2]

\* two callers attached to the first discovery while it was in flight, both resolved
C1_Witness ==
    /\ reloads = 0
    /\ \E c1, c2 \in CfgCalls :
          /\ c1 # c2
          /\ con[c1] = 0 /\ con[c2] = 0
          /\ Resolved(c1) /\ Resolved(c2)

\* C3: under any interleaving of getConfigAsync() and reloadConfig() at most
\* one discovery is in progress, and the cached configuration is written
\* exactly once per load/reload cycle.
C3_OneDiscoveryOneWrite ==
    /\ Cardinality(Running) <= 1
    /\ writes <= 1

\* C4: once a reloadConfig() has resolved, getConfig() and every later
\* getConfigAsync() return a configuration discovered by that reload or a
\* later one, never one of a discovery started before the reload.
C4_NoStaleConfigAfterReload ==
    /\ configCache # NullCfg => cacheSrc >= ReloadFloor
    /\ \A c \in CfgCalls : Resolved(c) /\ ckind[c] = "get" => csrc[c] >= cfloor[c]

\* C5 as claimed: getConfig() returns the configuration of the last completed
\* load if any load has ever completed, and the defaults only if none has.
C5_LastLoadedOrDefaults ==
    getConfig = IF lastLoaded # NullCfg THEN lastLoaded ELSE DefaultCfg

\* C5 as amended: getConfig() returns the configuration stored by the most
\* recently completed load if a load has completed since the last
\* reloadConfig() (or since start-up), and the built-in defaults otherwise.
C5_LoadedSinceReloadOrDefaults ==
    getConfig = IF cacheSrc # Null THEN dres[cacheSrc] ELSE DefaultCfg

\* a reloadConfig() is in flight after a load that had stored a merged
\* configuration: getConfig() is back to the defaults
C5_Witness ==
    /\ reloads > 0
    /\ cacheSrc = Null
    /\ lastLoaded \notin {NullCfg, DefaultCfg}
    /\ getConfig = DefaultCfg

\* C6: when discovery throws, its promise resolves with the built-in
\* defaults (its awaiters resolve with them, none rejects), and in that step
\* the cache becomes the defaults and the in-flight guard is cleared.
C6_DiscoveryFailureFallsBack ==
    /\ [](\A d \in DiscIds : dstate[d] = "threw" =>
            /\ dres[d] = DefaultCfg
            /\ \A c \in CfgCalls : Resolved(c) /\ con[c] = d => cres[c] = DefaultCfg)
    /\ [][\A d \in DiscIds : dstate[d] = "running" /\ dstate'[d] = "threw" =>
            configCache' = DefaultCfg /\ configPromise' = Null]_vars

\* a caller that awaited a discovery that threw has resolved
C6_Witness ==
    \E d \in DiscIds, c \in CfgCalls :
        dstate[d] = "threw" /\ con[c] = d /\ Resolved(c)

---------------------------------------------------------------------------
(* Properties of the revalidation dispatcher *)

PerTagLines(r) == {i \in 1..Len(rlog[r]) : rlog[r][i].tag # ""}
Settled(r) == rpc[r] \in {"returned", "threw"}

\* C2: while the capability is unprobed at most one import of next/cache is
\* in progress; later callers attach to it.
C2_OneProbeInProgress == Cardinality(Probing) <= 1

\* C7: once a probe has set nextCacheAvailable, no step (a dispatcher call, a
\* probe still in flight, a reloadConfig()) changes it, and no call issued
\* afterwards starts a probe.
C7_CapabilityMemoized ==
    [][nextCacheAvailable # "undefined" =>
          /\ nextCacheAvailable' = nextCacheAvailable
          /\ rprobed' = rprobed]_vars

\* the flag is set, a reloadConfig() has happened, and a call that did not
\* probe has gone through the dispatcher
C7_Witness ==
    /\ nextCacheAvailable # "undefined"
    /\ reloads > 0
    /\ \E r \in RevCalls : rtags[r] # Never /\ ~rprobed[r] /\ Settled(r)

\* C8: a call with tags "never" returns at once in every capability state:
\* it starts no probe, invokes no primitive and returns normally.
C8_NeverShortCircuits ==
    \A r \in RevCalls : rpc[r] # "idle" /\ rtags[r] = Never =>
        /\ rpc[r] = "returned"
        /\ ~rprobed[r]
        /\ ravail[r] = "undefined"
        /\ rinvoked[r] = <<>>

\* a "never" call has returned and the capability is still unprobed
C8_Witness ==
    /\ nextCacheAvailable = "undefined"
    /\ \E r \in RevCalls : rtags[r] = Never /\ rpc[r] = "returned"

\* C9: when the import fails or either export is not a function the probe
\* records "unavailable" and raises nothing, and a call that found the
\* capability unavailable invokes no primitive, logs no per-tag line and
\* returns normally.
C9_UnavailableIsNoOp ==
    /\ nextCacheAvailable # "undefined" =>
          (nextCacheAvailable = "true" <=>
              /\ nextCacheModule.loads
              /\ nextCacheModule.revalidateTag = "function"
              /\ nextCacheModule.updateTag = "function")
    /\ \A r \in RevCalls : rpc[r] = "resuming" => ravail[r] = nextCacheAvailable
    /\ \A r \in RevCalls : Settled(r) /\ ravail[r] = "false" =>
          /\ rpc[r] = "returned"
          /\ rinvoked[r] = <<>>
          /\ PerTagLines(r) = {}

\* the module loads but one export is missing, and a call with a list of
\* tags has returned
C9_Witness ==
    /\ nextCacheModule.loads
    /\ nextCacheModule.revalidateTag = "function"
    /\ nextCacheModule.updateTag # "function"
    /\ \E r \in RevCalls : Len(rtags[r].list) > 0 /\ rpc[r] = "returned"

\* C10: revalidateCacheTags() never throws or rejects, so a mutating request
\* whose exchange succeeded never fails because of the invalidation step.
C10_DispatcherNeverThrows ==
    \A r \in RevCalls : rpc[r] # "threw" /\ MutationOutcome(r) # "rejected"

\* the primitive that revalidateCacheTags(tags, {revalidateFunction}) selects
\* under the configuration now visible
Selected(revalidateFunction) ==
    IF revalidateFunction # "undefined" THEN revalidateFunction
    ELSE IF defaultRevalidateFunction # "undefined" THEN defaultRevalidateFunction
    ELSE "revalidateTag"

\* C11: a call that found the capability available and was given a list of
\* tags that is not empty has, once it has settled, invoked the selected
\* primitive exactly once per element, in list order (revalidateTag with the
\* tag and the per-call profile or else "max", updateTag with the tag only),
\* and has never invoked the other primitive.
C11_OncePerTagInOrder ==
    \A r \in RevCalls :
        Settled(r) /\ ravail[r] = "true" /\ Len(rtags[r].list) > 0 =>
            /\ Len(rinvoked[r]) = Len(rtags[r].list)
            /\ \A i \in 1..Len(rinvoked[r]) :
                  /\ rinvoked[r][i].fn = Selected(rfn[r])
                  /\ rinvoked[r][i].tag = rtags[r].list[i]
                  /\ rinvoked[r][i].profile =
                        IF Selected(rfn[r]) = "revalidateTag"
                        THEN (IF rprofile[r] # "undefined" THEN rprofile[r] ELSE "max")
                        ELSE "none"

\* C12: the strategy a call uses is its per-call revalidateFunction if one
\* was given, otherwise the defaultRevalidateFunction of the configuration
\* visible when the call selects its strategy, otherwise revalidateTag; a
\* configured default never replaces a per-call strategy.
C12_StrategyPrecedence ==
    [][\A r \in RevCalls :
          /\ rpc[r] = "resuming" /\ Settled(r)'
          /\ ravail[r] = "true" /\ Len(rtags[r].list) > 0
          => /\ Len(rinvoked'[r]) > 0
             /\ \A i \in 1..Len(rinvoked'[r]) : rinvoked'[r][i].fn = Selected(rfn[r])
             /\ rfn[r] # "undefined" =>
                   \A i \in 1..Len(rinvoked'[r]) : rinvoked'[r][i].fn = rfn[r]]_vars

\* a call with the per-call strategy revalidateTag has invoked revalidateTag
\* under a configuration whose default is updateTag, and a call without a
\* per-call strategy has invoked updateTag
C12_Witness ==
    /\ defaultRevalidateFunction = "updateTag"
    /\ \E r1, r2 \in RevCalls :
          /\ rfn[r1] = "revalidateTag" /\ rpc[r1] = "returned"
          /\ Len(rinvoked[r1]) > 0 /\ rinvoked[r1][1].fn = "revalidateTag"
          /\ rfn[r2] = "undefined" /\ rpc[r2] = "returned"
          /\ Len(rinvoked[r2]) > 0 /\ rinvoked[r2][1].fn = "updateTag"

EmptyOrAbsent(r) == rtags[r].kind = "undefined" \/ (rtags[r].kind = "list" /\ Len(rtags[r].list) = 0)

\* C13: when a call whose tag selector is an empty list or absent resumes with
\* the capability available, it invokes no primitive and returns normally,
\* and it emits the warning (a dev-mode line) if and only if
\* debug.emptyMutationTagsWarning of the visible configuration is truthy.
C13_EmptySelectorWarnsOnFlag ==
    [][\A r \in RevCalls :
          rpc[r] = "resuming" /\ rpc'[r] # "resuming" /\ ravail[r] = "true" /\ EmptyOrAbsent(r)
          => LET debug == Prop(getConfig.cfg, "debug")
                 flag == /\ debug.t = "obj"
                         /\ "emptyMutationTagsWarning" \in DOMAIN debug.f
                         /\ debug.f["emptyMutationTagsWarning"] = "true"
                 warning == [line |-> "Empty or missing tags", tag |-> "", devOnly |-> TRUE]
             IN  /\ rpc'[r] = "returned"
                 /\ rinvoked'[r] = <<>>
                 /\ rlog'[r] = IF flag THEN Append(rlog[r], warning) ELSE rlog[r]]_vars

Warned(r) == \E i \in 1..Len(rlog[r]) : rlog[r][i].line = "Empty or missing tags"

\* with the capability available, one call without tags has returned with the
\* warning and another has returned without it
C13_Witness ==
    \E r1, r2 \in RevCalls :
        /\ EmptyOrAbsent(r1) /\ ravail[r1] = "true" /\ rpc[r1] = "returned" /\ Warned(r1)
        /\ EmptyOrAbsent(r2) /\ ravail[r2] = "true" /\ rpc[r2] = "returned" /\ ~Warned(r2)

\* C14: within one call the invalidations are sequential: at most one of its
\* invocations is in progress at any time (invocation i has completed before
\* invocation i+1 starts), and none is in progress once the call has returned.
C14_InvalidationsSequential ==
    \A r \in RevCalls :
        /\ Cardinality(rinflight[r]) <= 1
        /\ rpc[r] = "returned" => rinflight[r] = {}

---------------------------------------------------------------------------
(* Properties of the cache classifier *)

Analyzed == Len(analysis) > 0
Headers == analysisArgs[1].response
Options == analysisArgs[1].requestInit
Duration == analysisArgs[1].timing.end - analysisArgs[1].timing.start
Indicators == {analysis[1].indicators[i] : i \in 1..Len(analysis[1].indicators)}

\* C15: for every input analyzeCacheStatus returns a status that is one of
\* HIT, MISS, STALE, REVALIDATED and a confidence in [0,1].
C15_StatusInVocabulary ==
    Analyzed =>
        /\ analysis[1].status \in {HIT, MISS, STALE, REVALIDATED}
        /\ analysis[1].confidence \in 0..100

\* C16: whatever the provider headers, age, cache-control, revalidate setting
\* and duration, a request whose cache directive is "no-store" is classified
\* MISS with confidence 0.95.
C16_NoStoreAlwaysWins ==
    Analyzed /\ Options.cache = "no-store" =>
        /\ analysis[1].status = MISS
        /\ analysis[1].confidence = 95

\* a no-store request with a HIT header, a fast response and an age beyond
\* max-age has been classified
C16_Witness ==
    /\ Analyzed
    /\ Options.cache = "no-store"
    /\ Headers.xNextjsCache = Str(HIT)
    /\ Headers.age = Str(ToDigits(MaxSeconds))
    /\ Headers.cacheControl = Str(MaxAgeDirective(60))
    /\ Duration < 5

\* the rules after the provider headers that set a status
LaterStatusRules ==
    {"very fast response", "fast cached response", "age header", "stale", "cache: no-store"}

\* C17: when x-nextjs-cache is present (a non-empty value) its upper-cased
\* value and confidence 0.95 are what the header rule yields, and
\* x-vercel-cache is ignored; when only x-vercel-cache is present its
\* upper-cased value and 0.9 are; these are the result when no later rule
\* fires. With x-nextjs-cache "HIT", no age header and a cache directive other
\* than no-store the result is HIT with 0.95 for every duration and revalidate.
C17_ProviderHeaders ==
    Analyzed =>
        /\ Truthy(Headers.xNextjsCache) =>
              /\ analysis[1].indicators[1] = "x-nextjs-cache"
              /\ "x-vercel-cache" \notin Indicators
              /\ analysis[1].confidence = 95
              /\ Indicators \cap LaterStatusRules = {} =>
                    analysis[1].status = toUpperCase(Headers.xNextjsCache.s)
        /\ ~Truthy(Headers.xNextjsCache) /\ Truthy(Headers.xVercelCache) =>
              /\ analysis[1].indicators[1] = "x-vercel-cache"
              /\ analysis[1].confidence >= 90
              /\ Indicators \cap LaterStatusRules = {} =>
                    /\ analysis[1].status = toUpperCase(Headers.xVercelCache.s)
                    /\ analysis[1].confidence = 90
        /\ /\ Headers.xNextjsCache = Str(HIT)
           /\ Headers.age = NullHeader
           /\ Options.cache # "no-store"
           => analysis[1].status = HIT /\ analysis[1].confidence = 95

\* both headers present, a slow response and no other signal: classified by
\* the upper-cased x-nextjs-cache
C17_Witness ==
    /\ Analyzed
    /\ Headers.xNextjsCache = Str(<<"h","i","t">>)
    /\ Headers.xVercelCache = Str(MISS)
    /\ Headers.age = NullHeader
    /\ Duration >= 20
    /\ Options.cache # "no-store"
    /\ analysis[1].status = HIT
    /\ analysis[1].confidence = 95

\* the analysis after the header, timing and age rules
BeforeStaleDetection ==
    ageHeaderAnalysis(
        timingAnalysis(
            providerHeaders(InitialAnalysis, Headers.xNextjsCache, Headers.xVercelCache),
            Duration, Options.revalidate),
        Headers.age)

\* age and max-age are both available as numbers and age > max-age
AgeExceedsMaxAge ==
    /\ Truthy(Headers.age)
    /\ ~parseInt(Headers.age.s).nan
    /\ Truthy(Headers.cacheControl)
    /\ maxAgeMatch(Headers.cacheControl.s).matched
    /\ parseInt(Headers.age.s).n > DecimalValue(maxAgeMatch(Headers.cacheControl.s).group)

\* age and max-age are both available as numbers and age <= max-age
AgeWithinMaxAge ==
    /\ Truthy(Headers.age)
    /\ ~parseInt(Headers.age.s).nan
    /\ Truthy(Headers.cacheControl)
    /\ maxAgeMatch(Headers.cacheControl.s).matched
    /\ parseInt(Headers.age.s).n <= DecimalValue(maxAgeMatch(Headers.cacheControl.s).group)

\* C18 as claimed: analyzeCacheStatus returns STALE in place of HIT exactly
\* when the status after the header, timing and age rules is HIT, an age and
\* a max-age are both available and age > max-age; the confidence is the one
\* before the override, and with age <= max-age the status stays HIT.
C18_StaleExactlyWhenAgeExceeds ==
    Analyzed =>
        LET overrides == BeforeStaleDetection.status = HIT /\ AgeExceedsMaxAge
        IN  /\ (analysis[1].status = STALE /\ BeforeStaleDetection.status = HIT)
                  <=> overrides
            /\ overrides => analysis[1].confidence = BeforeStaleDetection.confidence
            /\ BeforeStaleDetection.status = HIT /\ AgeWithinMaxAge =>
                  analysis[1].status = HIT

\* C18 as amended: the staleness override fires exactly when the status after
\* the header, timing and age rules is HIT, an age and a max-age are both
\* available and age > max-age; when the cache directive is not no-store the
\* result is then STALE in place of HIT with the confidence unchanged, and a
\* HIT that is not overridden stays HIT (with no-store the result is the MISS
\* of the rule that follows).
C18_StalenessOverride ==
    Analyzed =>
        LET overrides == BeforeStaleDetection.status = HIT /\ AgeExceedsMaxAge
        IN  /\ "stale" \in Indicators <=> overrides
            /\ Options.cache # "no-store" =>
                  /\ (analysis[1].status = STALE /\ BeforeStaleDetection.status = HIT)
                        <=> overrides
                  /\ analysis[1].confidence = BeforeStaleDetection.confidence
                  /\ BeforeStaleDetection.status = HIT /\ ~overrides =>
                        analysis[1].status = HIT
            /\ Options.cache = "no-store" => analysis[1].status = MISS

\* age=120 and max-age=60 with no other signal: STALE, with the confidence of
\* the age rule
C18_Witness ==
    /\ Analyzed
    /\ Headers.xNextjsCache = NullHeader /\ Headers.xVercelCache = NullHeader
    /\ Headers.age = Str(ToDigits(MaxSeconds))
    /\ Headers.cacheControl = Str(MaxAgeDirective(60))
    /\ Duration >= 20
    /\ Options.cache # "no-store"
    /\ analysis[1].status = STALE
    /\ analysis[1].confidence = 80

\* the confidences of the rules that fire on the arguments
FiredConfidences ==
    (IF Truthy(Headers.xNextjsCache) THEN {95}
     ELSE IF Truthy(Headers.xVercelCache) THEN {90} ELSE {})
    \cup (IF Duration < 5 THEN {80}
          ELSE IF Duration < 20 /\ TruthyRevalidate(Options.revalidate) THEN {70} ELSE {})
    \cup (IF Truthy(Headers.age) /\ GreaterThan(parseInt(Headers.age.s), Num(0))
          THEN {80} ELSE {})
    \cup (IF Options.cache = "no-store" THEN {95} ELSE {})

\* the status set by the last rule that fires on the arguments
LastFiredStatus ==
    IF Options.cache = "no-store" THEN MISS
    ELSE IF BeforeStaleDetection.status = HIT /\ AgeExceedsMaxAge THEN STALE
    ELSE IF Truthy(Headers.age) /\ GreaterThan(parseInt(Headers.age.s), Num(0)) THEN HIT
    ELSE IF Duration < 5 \/ (Duration < 20 /\ TruthyRevalidate(Options.revalidate)) THEN HIT
    ELSE IF Truthy(Headers.xNextjsCache) THEN toUpperCase(Headers.xNextjsCache.s)
    ELSE IF Truthy(Headers.xVercelCache) THEN toUpperCase(Headers.xVercelCache.s)
    ELSE MISS

\* C19: the confidence returned is the maximum of the initial 0.5 and the
\* confidences of the rules that fired (no rule lowers it), and the status
\* returned is the one set by the last rule that fired.
C19_ConfidenceRunningMaximum ==
    Analyzed =>
        /\ analysis[1].confidence \in FiredConfidences \cup {50}
        /\ \A c \in FiredConfidences \cup {50} : analysis[1].confidence >= c
        /\ analysis[1].status = LastFiredStatus

\* an x-vercel-cache header (0.9) followed by the timing rule (0.8): HIT with 0.9
C19_Witness ==
    /\ Analyzed
    /\ ~Truthy(Headers.xNextjsCache)
    /\ Headers.xVercelCache = Str(MISS)
    /\ Duration < 5
    /\ Options.cache # "no-store"
    /\ analysis[1].status \in {HIT, STALE}
    /\ analysis[1].confidence = 90

---------------------------------------------------------------------------
(* Properties of the tag store *)

Expanded == Len(expandedTags) > 0

\* the group a catalog name belongs to: what precedes its first colon, when
\* that is not empty
InGroup(name, group) ==
    /\ Len(group) > 0
    /\ Len(name) > Len(group)
    /\ SubSeq(name, 1, Len(group)) = group
    /\ name[Len(group) + 1] = ":"
    /\ \A i \in 1..Len(group) : group[i] # ":"

TagsOfGroup(group) == {name \in Range(storeConfig) : InGroup(name, group)}
KnownGroup(item) == TagsOfGroup(item) # {}
KnownTag(item) == item \in Range(storeConfig)

\* C20: expandGroupsToTags(items) returns, without duplicates, exactly the
\* union over the items of every tag of the group for an item that names a
\* known group and of the item itself for an item that names a known catalog
\* tag; other items contribute nothing; expandGroupsToTags([g]) is the set
\* getTagsByGroup(g).
C20_ExpandIsUnion ==
    Expanded =>
        LET items == storeItems[1]
            result == expandedTags[1]
        IN  /\ \A i, j \in 1..Len(result) : result[i] = result[j] => i = j
            /\ Range(result) =
                  UNION {TagsOfGroup(item) : item \in {x \in Range(items) : KnownGroup(x)}}
                  \cup {item \in Range(items) : KnownTag(item)}
            /\ Len(items) = 1 /\ KnownGroup(items[1]) =>
                  Range(result) = Range(getTagsByGroup(items[1]))

Validated == Len(validated) > 0

Known(item) == KnownTag(item) \/ KnownGroup(item)

\* C21: validateTagsAndGroups(items) partitions items: valid is the
\* subsequence of the items that are known tag or group names, invalid the
\* subsequence of those that are neither, both in input order and together
\* holding every input element exactly once; expandedTags equals
\* expandGroupsToTags(valid), which equals expandGroupsToTags(items).
C21_ValidatePartitions ==
    Validated =>
        LET items == storeItems[1]
            result == validated[1]
        IN  /\ result.valid = SelectSeq(items, LAMBDA item : Known(item))
            /\ result.invalid = SelectSeq(items, LAMBDA item : ~Known(item))
            /\ Len(result.valid) + Len(result.invalid) = Len(items)
            /\ result.expandedTags = expandGroupsToTags(result.valid)
            /\ result.expandedTags = expandGroupsToTags(items)

\* a list with a group name and an unknown name has been validated
C21_Witness ==
    /\ Validated
    /\ Len(validated[1].invalid) > 0
    /\ \E i \in 1..Len(validated[1].valid) :
          KnownGroup(validated[1].valid[i]) /\ ~KnownTag(validated[1].valid[i])
    /\ Len(validated[1].expandedTags) > 1

GroupAsked == Len(tagGroup) > 0

Prefixes(name) == {SubSeq(name, 1, k) : k \in 0..Len(name)}

\* the prefix before the first colon of a catalog tag whose first colon is
\* at an index > 0, as a sequence of at most one group; empty for any other name
GroupOf(name) ==
    IF KnownTag(name) /\ \E group \in Prefixes(name) : InGroup(name, group)
    THEN <<CHOOSE group \in Prefixes(name) : InGroup(name, group)>>
    ELSE <<>>

\* C22: for every catalog tag whose name has its first colon at an index > 0,
\* getTagGroup(tag) is the prefix before that colon and the tag is a member
\* of getTagsByGroup of that prefix; for every catalog tag with no colon or
\* with a leading colon, and for every unknown name, getTagGroup returns
\* undefined; no empty-string group exists.
C22_GroupDerivation ==
    /\ \A name \in CatalogNames \cup ItemNames :
          /\ getTagGroup(name) = GroupOf(name)
          /\ Len(GroupOf(name)) > 0 => name \in Range(getTagsByGroup(GroupOf(name)[1]))
    /\ GroupAsked => tagGroup[1].group = GroupOf(tagGroup[1].tagName)
    /\ <<>> \notin Range(getAllGroups)
    /\ ~hasGroup(<<>>)
    /\ \A i \in 1..Len(tagToGroupMap) : tagToGroupMap[i].value # <<>>

\* the group of a grouped tag has been asked for, in a store whose catalog
\* also holds a name with a leading colon
C22_Witness ==
    /\ GroupAsked
    /\ tagGroup[1].tagName = <<"g", ":", "a">>
    /\ tagGroup[1].group = << <<"g">> >>
    /\ <<":", "x">> \in Range(storeConfig)
    /\ getTagGroup(<<":", "x">>) = <<>>

StandaloneListed == Len(standaloneTags) > 0

GroupsHolding(name) == {g \in Range(getAllGroups) : name \in Range(getTagsByGroup(g))}

\* C29: each catalog tag is classified exactly one way: it is listed by
\* getStandaloneTags() if and only if getTagGroup(tag) is undefined, and
\* otherwise it belongs to exactly one group; getStandaloneTags() together
\* with the union of getTagsByGroup(g) over getAllGroups() covers every
\* catalog tag name with no overlap.
C29_ClassifiedExactlyOneWay ==
    StandaloneListed =>
        LET standalone == Range(standaloneTags[1])
            grouped == UNION {Range(getTagsByGroup(g)) : g \in Range(getAllGroups)}
        IN  /\ \A name \in Range(storeConfig) :
                  /\ name \in standalone <=> getTagGroup(name) = <<>>
                  /\ name \notin standalone => Cardinality(GroupsHolding(name)) = 1
            /\ standalone \cup grouped = Range(storeConfig)
            /\ standalone \cap grouped = {}

Expanding == ~Expanded /\ Expanded'

\* C30: expandGroupsToTags is idempotent and closed over the catalog: each
\* element of expandGroupsToTags(items) is a catalog tag name, expanding the
\* result again gives the same set, and the call leaves the indexes of the
\* store as they were.
C30_ExpandIdempotentAndClosed ==
    [][Expanding =>
          /\ \A i \in 1..Len(expandedTags'[1]) : KnownTag(expandedTags'[1][i])
          /\ Range(expandGroupsToTags(expandedTags'[1])) = Range(expandedTags'[1])
          /\ UNCHANGED <<storeConfig, tagsSet, groupsMap, tagToGroupMap>>]_vars

\* a list with a group name and an unknown name has been expanded to the
\* tags of the group, in a store that has a tag named like a group
C30_Witness ==
    /\ Expanded
    /\ Len(expandedTags[1]) > 1
    /\ \E i \in 1..Len(storeItems[1]) : ~Known(storeItems[1][i])
    /\ \E i \in 1..Len(storeItems[1]) : KnownGroup(storeItems[1][i])
    /\ <<"g">> \in Range(storeConfig)

---------------------------------------------------------------------------
(* Properties of the exported accessor *)

\* what a reader sees, nested blocks included: the configuration getConfig()
\* returns and the built-in defaults object
EffectiveConfig == <<Deref(getConfig), Deref(DefaultCfg)>>

\* C23: NEXUM_CONFIG is a read-only live view: every read reflects the
\* configuration getConfig() returns now, an assignment attempted through the
\* accessor leaves the effective configuration unchanged, and the effective
\* configuration (nested blocks and the built-in defaults object included)
\* changes only as the result of a load or of reloadConfig(), the steps that
\* write configCache.
C23_AccessorReadOnly ==
    [][/\ \A prop \in {"tokenVerb", "debug", "defaultRevalidateFunction"} :
             NEXUM_CONFIG(prop) = Prop(EffectiveConfig[1], prop)
       /\ assigns' # assigns => EffectiveConfig' = EffectiveConfig
       /\ EffectiveConfig' # EffectiveConfig => configCache' # configCache]_vars

---------------------------------------------------------------------------
(* Properties of the merge *)

Merging == mergeResult = <<>> /\ mergeResult' # <<>>

\* a non-null, non-array object
PlainObject(value) == value.t = "obj"

\* C24: for each key of discovered whose value is not undefined, the result
\* holds the one-level merge when both values at the key are non-null
\* non-array objects (discovered sub-keys win, default sub-keys absent from
\* discovered are kept) and the discovered value otherwise; keys whose
\* discovered value is undefined, and keys absent from discovered, keep the
\* default value; the defaults object is not modified.
C24_MergeOneLevel ==
    [][Merging =>
          LET defaults == mergeArgs[1].defaultConfig
              discovered == mergeArgs[1].userConfig
              result == mergeResult'[1]
              given == {k \in DOMAIN discovered : discovered[k].t # "undefined"}
          IN  /\ DOMAIN result = (DOMAIN defaults) \cup given
              /\ \A k \in given :
                    IF PlainObject(discovered[k]) /\ k \in DOMAIN defaults
                                                 /\ PlainObject(defaults[k])
                    THEN /\ result[k].t = "obj"
                         /\ DOMAIN result[k].f =
                               (DOMAIN defaults[k].f) \cup (DOMAIN discovered[k].f)
                         /\ \A sub \in DOMAIN result[k].f :
                               result[k].f[sub] =
                                  IF sub \in DOMAIN discovered[k].f
                                  THEN discovered[k].f[sub]
                                  ELSE defaults[k].f[sub]
                    ELSE result[k] = discovered[k]
              /\ \A k \in (DOMAIN defaults) \ given : result[k] = defaults[k]
              /\ mergeArgs' = mergeArgs]_vars

\* a file with a `debug` block that overrides one flag, an undefined
\* tokenVerb and a null defaultRevalidateFunction has been merged over the
\* defaults
C24_Witness ==
    /\ mergeResult # <<>>
    /\ mergeArgs[1].defaultConfig = DEFAULT_CONFIG
    /\ "debug" \in DOMAIN mergeArgs[1].userConfig
    /\ mergeArgs[1].userConfig["debug"] = Obj([ cacheLogging |-> "false" ])
    /\ Prop(mergeArgs[1].userConfig, "tokenVerb") = Undefined
    /\ "tokenVerb" \in DOMAIN mergeArgs[1].userConfig
    /\ Prop(mergeArgs[1].userConfig, "defaultRevalidateFunction") = NullValue
    /\ mergeResult[1]["debug"].f["emptyMutationTagsWarning"] = "true"
    /\ mergeResult[1]["debug"].f["cacheLogging"] = "false"

---------------------------------------------------------------------------
(* Properties of the dispatcher: order of the checks, call sites, throws *)

\* C25: the capability probe and the UNAVAILABLE early return precede the
\* empty-selector check: a call with an empty or absent tag list made while
\* the capability is unprobed still starts the probe, whose outcome is
\* memoized, and a call with an empty or absent tag list that finds the
\* capability unavailable returns without the empty-tags warning, whatever
\* the configuration flag.
C25_ProbeBeforeEmptyCheck ==
    [][\A r \in RevCalls :
          /\ rpc[r] = "idle" /\ rpc'[r] # "idle" /\ (EmptyOrAbsent(r))'
                => IF nextCacheAvailable = "undefined"
                   THEN rpc'[r] = "probing" /\ rprobed'[r] /\ rlog'[r] = <<>>
                   ELSE /\ rpc'[r] = "resuming" /\ ~rprobed'[r] /\ rlog'[r] = <<>>
                        /\ ravail'[r] = nextCacheAvailable
          /\ rpc[r] = "probing" /\ rpc'[r] # "probing" /\ EmptyOrAbsent(r)
                => /\ nextCacheAvailable' # "undefined"
                   /\ ravail'[r] = nextCacheAvailable'
                   /\ rpc'[r] = "resuming"
          /\ rpc[r] = "resuming" /\ rpc'[r] # "resuming" /\ EmptyOrAbsent(r)
                                 /\ ravail[r] = "false"
                => /\ rpc'[r] = "returned"
                   /\ ~(Warned(r))'
                   /\ rinvoked'[r] = <<>>]_vars

\* a call without tags made while unprobed has probed, found the capability
\* unavailable and returned without the warning, the flag being set; a later
\* call without tags has returned without probing and without the warning
C25_Witness ==
    /\ showEmptyTagsWarning
    /\ nextCacheAvailable = "false"
    /\ \E r1, r2 \in RevCalls :
          /\ EmptyOrAbsent(r1) /\ rpc[r1] = "returned" /\ rprobed[r1] /\ ~Warned(r1)
          /\ EmptyOrAbsent(r2) /\ rpc[r2] = "returned" /\ ~rprobed[r2] /\ ~Warned(r2)

\* the stored reference an invocation goes through
StoredReference(fn) == IF fn = "revalidateTag" THEN revalidateTag ELSE updateTag

\* C26: in every interleaving of concurrent calls a primitive is invoked
\* only in a state where the capability flag is available and the stored
\* reference being called is a function: no call site dereferences an
\* undefined primitive (which would end the call with a TypeError before any
\* invocation).
C26_CallSitesDefined ==
    [][\A r \in RevCalls :
          rpc[r] = "resuming" /\ rpc'[r] # "resuming"
                              /\ (rinvoked'[r] # <<>> \/ rpc'[r] = "threw")
          => /\ nextCacheAvailable = "true"
             /\ rinvoked'[r] # <<>>
             /\ \A i \in 1..Len(rinvoked'[r]) :
                   StoredReference(rinvoked'[r][i].fn) = "function"]_vars

\* two calls that both started a probe have invoked primitives, one of them
\* updateTag
C26_Witness ==
    \E r1, r2 \in RevCalls :
        /\ r1 # r2
        /\ rprobed[r1] /\ rprobed[r2]
        /\ rinvoked[r1] # <<>> /\ rinvoked[r1][1].fn = "updateTag"
        /\ rinvoked[r2] # <<>> /\ rinvoked[r2][1].fn = "revalidateTag"

\* C27: if the primitive throws on the i-th tag of a call, no primitive is
\* invoked for a later tag of that call (not in the step that throws, and
\* not afterwards), the invocations for the tags up to i remain made, and
\* the memoized capability flag is left as it was.
C27_ThrowAbortsLoop ==
    [][\A r \in RevCalls :
          /\ rpc[r] = "resuming" /\ rthrewAt'[r] > 0
                => LET tags == rtags[r].list
                       i == rthrewAt'[r]
                   IN  /\ i <= Len(tags)
                       /\ Len(rinvoked'[r]) = i
                       /\ \A j \in 1..i : rinvoked'[r][j].tag = tags[j]
                       /\ rpc'[r] = "threw"
                       /\ nextCacheAvailable' = nextCacheAvailable
          /\ rthrewAt[r] > 0
                => /\ rinvoked'[r] = rinvoked[r]
                   /\ rthrewAt'[r] = rthrewAt[r]
                   /\ rpc'[r] = "threw"]_vars

\* the primitive threw on the first of two tags: one invocation made, the
\* second tag never invalidated, the flag still available; and a later call
\* has gone through
C27_Witness ==
    \E r1, r2 \in RevCalls :
        /\ rthrewAt[r1] = 1
        /\ Len(rtags[r1].list) = 2
        /\ Len(rinvoked[r1]) = 1
        /\ nextCacheAvailable = "true"
        /\ r2 # r1 /\ rpc[r2] = "returned" /\ Len(rinvoked[r2]) = 2

---------------------------------------------------------------------------
(* Liveness of the configuration loader *)

\* no discovery that was started is still running
AllDiscoveriesCompleted == Running = {}

\* C28: when every started discovery eventually completes, every
\* getConfigAsync() and reloadConfig() call eventually resolves with a
\* configuration, and whenever all started discoveries have completed the
\* in-flight guard is cleared (configPromise = null) and configCache holds a
\* configuration.
C28_LoaderLiveness ==
    /\ \A c \in CfgCalls :
          (cpc[c] = "awaiting") ~> (Resolved(c) /\ cres[c] # NullCfg)
    /\ [](\A c \in CfgCalls : Resolved(c) => cres[c] # NullCfg)
    /\ <>AllDiscoveriesCompleted
    /\ [](AllDiscoveriesCompleted => configPromise = Null /\ configCache # NullCfg)

\* a reloadConfig() was issued while a discovery was running; both
\* discoveries have completed and every call has resolved
C28_Witness ==
    /\ AllDiscoveriesCompleted
    /\ reloads > 0
    /\ nextDisc = MaxDisc
    /\ \A c \in CfgCalls : Resolved(c)
    /\ \E c \in CfgCalls : ckind[c] = "reload" /\ csrc[c] # cacheSrc

====
